---- MODULE Spec2Model ----
(***************************************************************************)
(* KubeSparkManager (src/src/spark_manager.py): the per-user Spark cluster *)
(* lifecycle controller, run by independent callers against one shared     *)
(* orchestration platform.  Every platform API call is one atomic step;    *)
(* the callers' steps interleave freely.                                   *)
(***************************************************************************)
EXTENDS Integers, Sequences, FiniteSets, TLC

(* ------------------------------------------------------------------ *)
(* Bounds of the model                                                 *)
(* ------------------------------------------------------------------ *)

\* create_cluster's sizing arguments are drawn from 1..MaxCfg
MaxCfg == 2

\* usernames have at most MaxLen characters, the sanitizer's inputs one more
MaxLen == 4

\* at most MaxMissing settings are unset, empty or blank in an environment
MaxMissing == 2

(* ------------------------------------------------------------------ *)
(* Program constants                                                   *)
(* ------------------------------------------------------------------ *)

\* a platform call that raised no ApiException
NoException == 0
\* e.status == 409: the name is already taken
Conflict == 409
\* e.status == 404: no resource of that name
NotFound == 404
\* any other ApiException status
ServerError == 500

\* independent callers, each holding its own KubeSparkManager for the same user
Procs == {"a", "b"}

\* self.master_name, self.worker_name: the same for every manager of one user
master_name == "spark-master-user"
worker_name == "spark-worker-user"

\* self.cluster_id: one fresh uuid suffix per manager instance
cluster_id(p) == "spark-user-" \o p

VARIABLES
    platform,   \* the resources on the platform: records [kind, name, body]
    pc,         \* per caller: its position
    op,         \* per caller: the public operation it runs
    step,       \* per caller: index of the resource the operation is at
    cfg,        \* per caller: the sizing arguments of its create_cluster call
    calls,      \* per caller: the platform calls of the current create-or-replace
                \* call (create_cluster) or of the current delete_cluster call
    results,    \* per caller: delete_cluster's deletion_results so far
    outcome,    \* per caller: what its last finished operation gave its caller
    master_status,  \* per caller: get_cluster_status's master_status
    worker_status,  \* per caller: get_cluster_status's worker_status
    cluster_status, \* per caller: the SparkClusterStatus it was last given
    environ,    \* os.environ: for each setting, whether it is unset, blank or set
    self,       \* per caller: its KubeSparkManager (username, namespace, names)
    sanitized   \* the input and results of the name sanitizer's calls

statusvars == <<master_status, worker_status, cluster_status>>

idvars == <<environ, self, sanitized>>

vars == <<platform, pc, op, step, cfg, calls, results, outcome,
          master_status, worker_status, cluster_status,
          environ, self, sanitized>>

(* ------------------------------------------------------------------ *)
(* The platform API (spec section 6): create / delete by kind and name *)
(* ------------------------------------------------------------------ *)

Named(kind, name) == {r \in platform : r.kind = kind /\ r.name = name}

Exists(kind, name) == Named(kind, name) # {}

\* errors the platform may answer with whatever its state is
CreateFaults == {NotFound, ServerError}
DeleteFaults == {ServerError}

\* a platform without the conflict signal: a create of an existing name is accepted
CreateResponses_no_conflict(kind, name) == {NoException} \cup CreateFaults

\* create(namespace, document) -> success | ConflictError | OtherError
CreateResponses(kind, name) ==
    (IF Exists(kind, name) THEN {Conflict} ELSE {NoException}) \cup CreateFaults

\* delete(name, namespace) -> success | NotFoundError | OtherError
DeleteResponses(kind, name) ==
    (IF Exists(kind, name) THEN {NoException} ELSE {NotFound}) \cup DeleteFaults

Responses(verb, kind, name) ==
    IF verb = "create" THEN CreateResponses(kind, name)
    ELSE DeleteResponses(kind, name)

\* the platform after the call: only a call that raised nothing changes it
Effect(verb, kind, name, body, st) ==
    IF st # NoException THEN platform
    ELSE IF verb = "create"
         THEN platform \cup {[kind |-> kind, name |-> name, body |-> body]}
         ELSE platform \ Named(kind, name)

(* ------------------------------------------------------------------ *)
(* Manifests: render_yaml_template's output, opaque to the controller  *)
(* ------------------------------------------------------------------ *)

\* _create_master_deployment: cluster id plus master cores/memory
master_deployment(p, c) ==
    [template |-> "spark_master_deployment.yaml", cluster |-> cluster_id(p), args |-> c]

\* _create_master_service: cluster id only
master_service(p) ==
    [template |-> "spark_master_service.yaml", cluster |-> cluster_id(p), args |-> 0]

\* _create_worker_deployment: cluster id plus worker count/cores/memory
worker_deployment(p, c) ==
    [template |-> "spark_worker_deployment.yaml", cluster |-> cluster_id(p), args |-> c]

Bodies ==
    {master_deployment(p, c) : p \in Procs, c \in 1..MaxCfg}
        \cup {master_service(p) : p \in Procs}
        \cup {worker_deployment(p, c) : p \in Procs, c \in 1..MaxCfg}

(* ------------------------------------------------------------------ *)
(* create-or-replace                                                   *)
(* ------------------------------------------------------------------ *)

\* Variants of _create_or_replace_deployment, each one slip away from the code.

\* a conflict on the first create is surfaced instead of replaced
create_or_replace_deployment_no_replace(phase, st) ==
    CASE phase = "create1" -> IF st = NoException THEN "return" ELSE "raise"
      [] phase = "delete" -> IF st = NoException THEN "create2" ELSE "raise"
      [] phase = "create2" -> IF st = NoException THEN "return" ELSE "raise"

\* the delete-and-recreate also runs after a successful first create
create_or_replace_deployment_replace_always(phase, st) ==
    CASE phase = "create1" ->
            IF st \in {NoException, Conflict} THEN "delete" ELSE "raise"
      [] phase = "delete" -> IF st = NoException THEN "create2" ELSE "raise"
      [] phase = "create2" -> IF st = NoException THEN "return" ELSE "raise"

\* every failure of the first create is retried, not only the conflict
create_or_replace_deployment_retry_any(phase, st) ==
    CASE phase = "create1" -> IF st = NoException THEN "return" ELSE "delete"
      [] phase = "delete" -> IF st = NoException THEN "create2" ELSE "raise"
      [] phase = "create2" -> IF st = NoException THEN "return" ELSE "raise"

\* a not-found from the delete is tolerated and the create is retried anyway
create_or_replace_deployment_tolerant_delete(phase, st) ==
    CASE phase = "create1" ->
            IF st = NoException THEN "return"
            ELSE IF st = Conflict THEN "delete"
            ELSE "raise"
      [] phase = "delete" -> IF st \in {NoException, NotFound} THEN "create2" ELSE "raise"
      [] phase = "create2" -> IF st = NoException THEN "return" ELSE "raise"

\* a conflict on the second create starts the replace over
create_or_replace_deployment_retry_again(phase, st) ==
    CASE phase = "create1" ->
            IF st = NoException THEN "return"
            ELSE IF st = Conflict THEN "delete"
            ELSE "raise"
      [] phase = "delete" -> IF st = NoException THEN "create2" ELSE "raise"
      [] phase = "create2" ->
            IF st = NoException THEN "return"
            ELSE IF st = Conflict THEN "delete"
            ELSE "raise"

\* the existing resource is deleted but never recreated
create_or_replace_deployment_skip_recreate(phase, st) ==
    CASE phase = "create1" ->
            IF st = NoException THEN "return"
            ELSE IF st = Conflict THEN "delete"
            ELSE "raise"
      [] phase = "delete" -> IF st = NoException THEN "return" ELSE "raise"
      [] phase = "create2" -> IF st = NoException THEN "return" ELSE "raise"

\* The control flow of _create_or_replace_deployment: from the call it has
\* just made (phase) and the platform's answer (st) to what it does next.
create_or_replace_deployment(phase, st) ==
    CASE phase = "create1" ->
            IF st = NoException THEN "return"
            ELSE IF st = Conflict THEN "delete"
            ELSE "raise"
      [] phase = "delete" ->
            IF st = NoException THEN "create2" ELSE "raise"
      [] phase = "create2" ->
            IF st = NoException THEN "return" ELSE "raise"

\* The control flow of _create_or_replace_service (the same protocol).
create_or_replace_service(phase, st) ==
    CASE phase = "create1" ->
            IF st = NoException THEN "return"
            ELSE IF st = Conflict THEN "delete"
            ELSE "raise"
      [] phase = "delete" ->
            IF st = NoException THEN "create2" ELSE "raise"
      [] phase = "create2" ->
            IF st = NoException THEN "return" ELSE "raise"

create_or_replace(kind, phase, st) ==
    IF kind = "Deployment" THEN create_or_replace_deployment(phase, st)
    ELSE create_or_replace_service(phase, st)

\* the platform call each phase of create-or-replace makes
PhaseVerb(phase) == IF phase = "delete" THEN "delete" ELSE "create"

(* ------------------------------------------------------------------ *)
(* create_cluster                                                      *)
(* ------------------------------------------------------------------ *)

\* create_cluster: master deployment, master service, worker deployment
CreateOrder(p, c) ==
    << [kind |-> "Deployment", name |-> master_name, body |-> master_deployment(p, c)],
       [kind |-> "Service",    name |-> master_name, body |-> master_service(p)],
       [kind |-> "Deployment", name |-> worker_name, body |-> worker_deployment(p, c)] >>

NoOutcome == [exc |-> "none", status |-> NoException, message |-> ""]

ApiException(st) == [exc |-> "ApiException", status |-> st, message |-> ""]

\* SparkClusterCreateResponse(cluster_id, master_url, master_ui_url)
SparkClusterCreateResponse(p) ==
    [exc |-> "none", status |-> NoException, message |-> cluster_id(p)]

Idle(p) == pc[p] \in {"idle", "returned", "raised"}

\* create_cluster draws a new cluster id for the manager
CallCreateCluster_new_id(p) ==
    /\ Idle(p)
    /\ \E c \in 1..MaxCfg : cfg' = [cfg EXCEPT ![p] = c]
    /\ op' = [op EXCEPT ![p] = "create_cluster"]
    /\ pc' = [pc EXCEPT ![p] = "create1"]
    /\ step' = [step EXCEPT ![p] = 1]
    /\ calls' = [calls EXCEPT ![p] = <<>>]
    /\ results' = [results EXCEPT ![p] = <<>>]
    /\ outcome' = [outcome EXCEPT ![p] = NoOutcome]
    /\ self' = [self EXCEPT ![p].cluster_id = self[p].cluster_id \o "-2"]
    /\ UNCHANGED <<platform, statusvars, environ, sanitized>>

\* a caller invokes create_cluster with some sizing arguments
CallCreateCluster(p) ==
    /\ Idle(p)
    /\ \E c \in 1..MaxCfg : cfg' = [cfg EXCEPT ![p] = c]
    /\ op' = [op EXCEPT ![p] = "create_cluster"]
    /\ pc' = [pc EXCEPT ![p] = "create1"]
    /\ step' = [step EXCEPT ![p] = 1]
    /\ calls' = [calls EXCEPT ![p] = <<>>]
    /\ results' = [results EXCEPT ![p] = <<>>]
    /\ outcome' = [outcome EXCEPT ![p] = NoOutcome]
    /\ UNCHANGED <<platform, statusvars, idvars>>

\* a failure of the worker deployment's creation rolls the master back
CorStep_rollback(p, phase) ==
    /\ op[p] = "create_cluster"
    /\ pc[p] = phase
    /\ LET r == CreateOrder(p, cfg[p])[step[p]]
           verb == PhaseVerb(phase)
       IN \E st \in Responses(verb, r.kind, r.name) :
            LET next == create_or_replace(r.kind, phase, st)
                call == [verb |-> verb, kind |-> r.kind, name |-> r.name, status |-> st]
            IN /\ platform' =
                    IF next = "raise" /\ step[p] = 3
                    THEN platform \ (Named("Deployment", master_name)
                                        \cup Named("Service", master_name))
                    ELSE Effect(verb, r.kind, r.name, r.body, st)
               /\ calls' = [calls EXCEPT ![p] =
                               IF phase = "create1" THEN <<call>> ELSE Append(@, call)]
               /\ CASE next = "raise" ->
                         /\ pc' = [pc EXCEPT ![p] = "raised"]
                         /\ outcome' = [outcome EXCEPT ![p] = ApiException(st)]
                         /\ UNCHANGED step
                    [] next = "return" /\ step[p] < Len(CreateOrder(p, cfg[p])) ->
                         /\ pc' = [pc EXCEPT ![p] = "create1"]
                         /\ step' = [step EXCEPT ![p] = @ + 1]
                         /\ UNCHANGED outcome
                    [] next = "return" /\ step[p] = Len(CreateOrder(p, cfg[p])) ->
                         /\ pc' = [pc EXCEPT ![p] = "returned"]
                         /\ outcome' = [outcome EXCEPT ![p] = SparkClusterCreateResponse(p)]
                         /\ UNCHANGED step
                    [] OTHER ->
                         /\ pc' = [pc EXCEPT ![p] = next]
                         /\ UNCHANGED <<step, outcome>>
    /\ UNCHANGED <<op, cfg, results, statusvars, idvars>>

\* One platform call of the create-or-replace that create_cluster is in,
\* and everything the code does with its answer up to the next call.
CorStep(p, phase) ==
    /\ op[p] = "create_cluster"
    /\ pc[p] = phase
    /\ LET r == CreateOrder(p, cfg[p])[step[p]]
           verb == PhaseVerb(phase)
       IN \E st \in Responses(verb, r.kind, r.name) :
            LET next == create_or_replace(r.kind, phase, st)
                call == [verb |-> verb, kind |-> r.kind, name |-> r.name, status |-> st]
            IN /\ platform' = Effect(verb, r.kind, r.name, r.body, st)
               /\ calls' = [calls EXCEPT ![p] =
                               IF phase = "create1" THEN <<call>> ELSE Append(@, call)]
               /\ CASE next = "raise" ->
                         /\ pc' = [pc EXCEPT ![p] = "raised"]
                         /\ outcome' = [outcome EXCEPT ![p] = ApiException(st)]
                         /\ UNCHANGED step
                    [] next = "return" /\ step[p] < Len(CreateOrder(p, cfg[p])) ->
                         /\ pc' = [pc EXCEPT ![p] = "create1"]
                         /\ step' = [step EXCEPT ![p] = @ + 1]
                         /\ UNCHANGED outcome
                    [] next = "return" /\ step[p] = Len(CreateOrder(p, cfg[p])) ->
                         /\ pc' = [pc EXCEPT ![p] = "returned"]
                         /\ outcome' = [outcome EXCEPT ![p] = SparkClusterCreateResponse(p)]
                         /\ UNCHANGED step
                    [] OTHER ->
                         /\ pc' = [pc EXCEPT ![p] = next]
                         /\ UNCHANGED <<step, outcome>>
    /\ UNCHANGED <<op, cfg, results, statusvars, idvars>>

FirstCreate(p) == CorStep(p, "create1")
ReplaceDelete(p) == CorStep(p, "delete")
SecondCreate(p) == CorStep(p, "create2")

(* ------------------------------------------------------------------ *)
(* delete_cluster                                                      *)
(* ------------------------------------------------------------------ *)

\* Variants of _attempt_delete and of delete_cluster's tally.

\* every error is swallowed: the resource is recorded as present and not deleted
attempt_delete_swallow(st) ==
    IF st = NoException
    THEN [raise |-> FALSE, deleted |-> TRUE, resource_exists |-> TRUE]
    ELSE IF st = NotFound
    THEN [raise |-> FALSE, deleted |-> FALSE, resource_exists |-> FALSE]
    ELSE [raise |-> FALSE, deleted |-> FALSE, resource_exists |-> TRUE]

\* a successful delete is not marked as deleted
attempt_delete_not_marked(st) ==
    IF st = NoException
    THEN [raise |-> FALSE, deleted |-> FALSE, resource_exists |-> TRUE]
    ELSE IF st = NotFound
    THEN [raise |-> FALSE, deleted |-> FALSE, resource_exists |-> FALSE]
    ELSE [raise |-> TRUE, deleted |-> FALSE, resource_exists |-> TRUE]

\* a not-found leaves resource_exists at its initial True
attempt_delete_404_exists(st) ==
    IF st = NoException
    THEN [raise |-> FALSE, deleted |-> TRUE, resource_exists |-> TRUE]
    ELSE IF st = NotFound
    THEN [raise |-> FALSE, deleted |-> FALSE, resource_exists |-> TRUE]
    ELSE [raise |-> TRUE, deleted |-> FALSE, resource_exists |-> TRUE]

\* every ApiException is taken for a not-found
attempt_delete_any_error_not_found(st) ==
    IF st = NoException
    THEN [raise |-> FALSE, deleted |-> TRUE, resource_exists |-> TRUE]
    ELSE [raise |-> FALSE, deleted |-> FALSE, resource_exists |-> FALSE]

\* _attempt_delete: the record it returns, or raise
attempt_delete(st) ==
    IF st = NoException
    THEN [raise |-> FALSE, deleted |-> TRUE, resource_exists |-> TRUE]
    ELSE IF st = NotFound
    THEN [raise |-> FALSE, deleted |-> FALSE, resource_exists |-> FALSE]
    ELSE [raise |-> TRUE, deleted |-> FALSE, resource_exists |-> TRUE]

\* delete_cluster: worker deployment, master deployment, master service
DeleteOrder ==
    << [kind |-> "Deployment", name |-> worker_name],
       [kind |-> "Deployment", name |-> master_name],
       [kind |-> "Service",    name |-> master_name] >>

Count(rs, field) == Cardinality({i \in 1..Len(rs) : rs[i][field]})

resources_found(rs) == Count(rs, "resource_exists")
resources_deleted(rs) == Count(rs, "deleted")

\* the found == 0 case is not told apart from a full deletion
delete_cluster_outcome_no_empty_case(rs) ==
    IF Cardinality({i \in 1..Len(rs) : rs[i].deleted})
         = Cardinality({i \in 1..Len(rs) : rs[i].resource_exists})
    THEN [exc |-> "none", status |-> NoException,
          message |-> "Spark cluster deleted successfully"]
    ELSE [exc |-> "ClusterDeletionError", status |-> NoException,
          message |-> "Spark cluster deletion partially completed"]

\* any deletion at all is reported as success
delete_cluster_outcome_partial_ok(rs) ==
    IF resources_found(rs) = 0
    THEN [exc |-> "none", status |-> NoException,
          message |-> "No Spark cluster resources found"]
    ELSE IF resources_deleted(rs) > 0
    THEN [exc |-> "none", status |-> NoException,
          message |-> "Spark cluster deleted successfully"]
    ELSE [exc |-> "ClusterDeletionError", status |-> NoException,
          message |-> "Spark cluster deletion partially completed"]

\* delete_cluster, once all three attempts have returned
delete_cluster_outcome(rs) ==
    IF resources_found(rs) = 0
    THEN [exc |-> "none", status |-> NoException,
          message |-> "No Spark cluster resources found"]
    ELSE IF resources_deleted(rs) = resources_found(rs)
    THEN [exc |-> "none", status |-> NoException,
          message |-> "Spark cluster deleted successfully"]
    ELSE [exc |-> "ClusterDeletionError", status |-> NoException,
          message |-> "Spark cluster deletion partially completed"]

CallDeleteCluster(p) ==
    /\ Idle(p)
    /\ op' = [op EXCEPT ![p] = "delete_cluster"]
    /\ pc' = [pc EXCEPT ![p] = "attempt_delete"]
    /\ step' = [step EXCEPT ![p] = 1]
    /\ calls' = [calls EXCEPT ![p] = <<>>]
    /\ results' = [results EXCEPT ![p] = <<>>]
    /\ outcome' = [outcome EXCEPT ![p] = NoOutcome]
    /\ UNCHANGED <<platform, cfg, statusvars, idvars>>

\* One _attempt_delete of delete_cluster; after the last one, the tally.
AttemptDelete(p) ==
    /\ op[p] = "delete_cluster"
    /\ pc[p] = "attempt_delete"
    /\ LET r == DeleteOrder[step[p]]
       IN \E st \in Responses("delete", r.kind, r.name) :
            LET res == attempt_delete(st)
                call == [verb |-> "delete", kind |-> r.kind, name |-> r.name, status |-> st]
                rs == Append(results[p], [deleted |-> res.deleted,
                                          resource_exists |-> res.resource_exists])
            IN /\ platform' = Effect("delete", r.kind, r.name, <<>>, st)
               /\ calls' = [calls EXCEPT ![p] = Append(@, call)]
               /\ IF res.raise
                  THEN /\ pc' = [pc EXCEPT ![p] = "raised"]
                       /\ outcome' = [outcome EXCEPT ![p] = ApiException(st)]
                       /\ UNCHANGED <<step, results>>
                  ELSE IF step[p] < Len(DeleteOrder)
                  THEN /\ step' = [step EXCEPT ![p] = @ + 1]
                       /\ results' = [results EXCEPT ![p] = rs]
                       /\ UNCHANGED <<pc, outcome>>
                  ELSE /\ results' = [results EXCEPT ![p] = rs]
                       /\ outcome' = [outcome EXCEPT ![p] = delete_cluster_outcome(rs)]
                       /\ pc' = [pc EXCEPT ![p] =
                                    IF delete_cluster_outcome(rs).exc = "none"
                                    THEN "returned" ELSE "raised"]
                       /\ UNCHANGED step
    /\ UNCHANGED <<op, cfg, statusvars, idvars>>

(* ------------------------------------------------------------------ *)
(* get_cluster_status                                                  *)
(* ------------------------------------------------------------------ *)

\* the platform reports replica counters in 0..MaxReplicas
MaxReplicas == 1

\* an attribute the status object does not have (getattr falls to its default)
Missing == -2
\* an attribute that is None
Null == -1

\* Optional[str]: None, or a string (which may be empty)
None == <<>>
Some(str) == <<str>>

\* env KUBE_NAMESPACE
namespace == "kube-ns"

\* DeploymentStatus(exists=...): every other field at the model's default
DeploymentStatus(exists) ==
    [exists |-> exists, replicas |-> 0, ready_replicas |-> 0,
     available_replicas |-> 0, unavailable_replicas |-> 0,
     is_ready |-> FALSE, error |-> None]

\* read(name, namespace) -> objectWithOptionalStatus | NotFoundError | OtherError
FieldValues == {Missing, Null} \cup (0..MaxReplicas)

StatusPayloads ==
    [replicas : FieldValues, ready_replicas : FieldValues,
     available_replicas : FieldValues, unavailable_replicas : FieldValues]

NoPayload ==
    [replicas |-> Missing, ready_replicas |-> Missing,
     available_replicas |-> Missing, unavailable_replicas |-> Missing]

\* the read returned a deployment object, with or without a status object
ReadObject(has_status, payload) ==
    [exc |-> "none", status |-> NoException, text |-> "",
     has_status |-> has_status, payload |-> payload]

\* the read raised: an ApiException of some status, or any other Exception;
\* text is str(e)
ReadError(exc, st, text) ==
    [exc |-> exc, status |-> st, text |-> text,
     has_status |-> FALSE, payload |-> NoPayload]

ReadNotFound == ReadError("ApiException", NotFound, "(404) Reason: Not Found")

ReadFaults ==
    {ReadError("ApiException", ServerError, "(500) Reason: Server Error"),
     ReadError("Exception", NoException, "Test error"),
     ReadError("Exception", NoException, "")}

ReadResponses(name) ==
    (IF Exists("Deployment", name)
     THEN {ReadObject(TRUE, pl) : pl \in StatusPayloads}
              \cup {ReadObject(FALSE, NoPayload)}
     ELSE {ReadNotFound})
        \cup ReadFaults

\* getattr(obj, field, default)
getattr(obj, field, default) ==
    IF obj[field] = Missing THEN default ELSE obj[field]

\* Python's "value or 0"
or_zero(value) == IF value = Null \/ value = 0 THEN 0 ELSE value

\* Variants of _get_deployment_status, each one slip away from the code.

\* a 404 ApiException is handled as a normal outcome: error stays None
get_deployment_status_404_normal(resp) ==
    LET status == DeploymentStatus(FALSE)
    IN IF resp.exc = "ApiException" /\ resp.status = NotFound
       THEN status
       ELSE IF resp.exc # "none"
       THEN [status EXCEPT !.error = Some(resp.text)]
       ELSE IF ~resp.has_status
       THEN [status EXCEPT !.exists = TRUE,
                           !.error = Some("Deployment status is None")]
       ELSE LET available == or_zero(getattr(resp.payload, "available_replicas", 0))
                ready == or_zero(getattr(resp.payload, "ready_replicas", 0))
                replicas == or_zero(getattr(resp.payload, "replicas", 0))
                unavailable == or_zero(getattr(resp.payload, "unavailable_replicas", 0))
            IN [status EXCEPT !.exists = TRUE,
                              !.available_replicas = available,
                              !.ready_replicas = ready,
                              !.replicas = replicas,
                              !.unavailable_replicas = unavailable,
                              !.is_ready = (ready = replicas /\ replicas > 0)]

\* the exists flag is set before the read instead of after it
get_deployment_status_exists_early(resp) ==
    LET status == DeploymentStatus(TRUE)
    IN IF resp.exc # "none"
       THEN [status EXCEPT !.error = Some(resp.text)]
       ELSE IF ~resp.has_status
       THEN [status EXCEPT !.error = Some("Deployment status is None")]
       ELSE LET available == or_zero(getattr(resp.payload, "available_replicas", 0))
                ready == or_zero(getattr(resp.payload, "ready_replicas", 0))
                replicas == or_zero(getattr(resp.payload, "replicas", 0))
                unavailable == or_zero(getattr(resp.payload, "unavailable_replicas", 0))
            IN [status EXCEPT !.available_replicas = available,
                              !.ready_replicas = ready,
                              !.replicas = replicas,
                              !.unavailable_replicas = unavailable,
                              !.is_ready = (ready = replicas /\ replicas > 0)]

\* the missing status object is not checked for
get_deployment_status_no_none_check(resp) ==
    LET status == DeploymentStatus(FALSE)
    IN IF resp.exc # "none"
       THEN [status EXCEPT !.error = Some(resp.text)]
       ELSE LET available == or_zero(getattr(resp.payload, "available_replicas", 0))
                ready == or_zero(getattr(resp.payload, "ready_replicas", 0))
                replicas == or_zero(getattr(resp.payload, "replicas", 0))
                unavailable == or_zero(getattr(resp.payload, "unavailable_replicas", 0))
            IN [status EXCEPT !.exists = TRUE,
                              !.available_replicas = available,
                              !.ready_replicas = ready,
                              !.replicas = replicas,
                              !.unavailable_replicas = unavailable,
                              !.is_ready = (ready = replicas /\ replicas > 0)]

\* the counters are read with getattr alone, without "or 0"
get_deployment_status_no_or_zero(resp) ==
    LET status == DeploymentStatus(FALSE)
    IN IF resp.exc # "none"
       THEN [status EXCEPT !.error = Some(resp.text)]
       ELSE IF ~resp.has_status
       THEN [status EXCEPT !.exists = TRUE,
                           !.error = Some("Deployment status is None")]
       ELSE LET available == getattr(resp.payload, "available_replicas", 0)
                ready == getattr(resp.payload, "ready_replicas", 0)
                replicas == getattr(resp.payload, "replicas", 0)
                unavailable == getattr(resp.payload, "unavailable_replicas", 0)
            IN [status EXCEPT !.exists = TRUE,
                              !.available_replicas = available,
                              !.ready_replicas = ready,
                              !.replicas = replicas,
                              !.unavailable_replicas = unavailable,
                              !.is_ready = (ready = replicas /\ replicas > 0)]

\* is_ready compares the two counters only
get_deployment_status_ready_at_zero(resp) ==
    LET status == DeploymentStatus(FALSE)
    IN IF resp.exc # "none"
       THEN [status EXCEPT !.error = Some(resp.text)]
       ELSE IF ~resp.has_status
       THEN [status EXCEPT !.exists = TRUE,
                           !.error = Some("Deployment status is None")]
       ELSE LET available == or_zero(getattr(resp.payload, "available_replicas", 0))
                ready == or_zero(getattr(resp.payload, "ready_replicas", 0))
                replicas == or_zero(getattr(resp.payload, "replicas", 0))
                unavailable == or_zero(getattr(resp.payload, "unavailable_replicas", 0))
            IN [status EXCEPT !.exists = TRUE,
                              !.available_replicas = available,
                              !.ready_replicas = ready,
                              !.replicas = replicas,
                              !.unavailable_replicas = unavailable,
                              !.is_ready = (ready = replicas)]

\* _get_deployment_status: the DeploymentStatus it returns for what the read gave
get_deployment_status(resp) ==
    LET status == DeploymentStatus(FALSE)
    IN IF resp.exc # "none"
       THEN [status EXCEPT !.error = Some(resp.text)]
       ELSE IF ~resp.has_status
       THEN [status EXCEPT !.exists = TRUE,
                           !.error = Some("Deployment status is None")]
       ELSE LET available == or_zero(getattr(resp.payload, "available_replicas", 0))
                ready == or_zero(getattr(resp.payload, "ready_replicas", 0))
                replicas == or_zero(getattr(resp.payload, "replicas", 0))
                unavailable == or_zero(getattr(resp.payload, "unavailable_replicas", 0))
            IN [status EXCEPT !.exists = TRUE,
                              !.available_replicas = available,
                              !.ready_replicas = ready,
                              !.replicas = replicas,
                              !.unavailable_replicas = unavailable,
                              !.is_ready = (ready = replicas /\ replicas > 0)]

\* bool(x) of an Optional[str]
Truthy(opt) == opt # None /\ opt # Some("")

master_url == "spark://" \o master_name \o "." \o namespace \o ":7077"
master_ui_url == "http://" \o master_name \o "." \o namespace \o ":8090"

\* the URLs are set when the master is_ready instead of when it has a ready replica
SparkClusterStatus_url_if_ready(ms, ws) ==
    [master |-> ms,
     workers |-> ws,
     master_url |-> IF ms.is_ready THEN Some(master_url) ELSE None,
     master_ui_url |-> IF ms.is_ready THEN Some(master_ui_url) ELSE None,
     error |-> (Truthy(ms.error) \/ Truthy(ws.error))]

\* the URLs are withheld when the worker read failed
SparkClusterStatus_url_needs_worker(ms, ws) ==
    [master |-> ms,
     workers |-> ws,
     master_url |-> IF ms.ready_replicas > 0 /\ ws.error = None
                    THEN Some(master_url) ELSE None,
     master_ui_url |-> IF ms.ready_replicas > 0 /\ ws.error = None
                       THEN Some(master_ui_url) ELSE None,
     error |-> (Truthy(ms.error) \/ Truthy(ws.error))]

\* get_cluster_status: the SparkClusterStatus built from the two statuses
SparkClusterStatus(ms, ws) ==
    [master |-> ms,
     workers |-> ws,
     master_url |-> IF ms.ready_replicas > 0 THEN Some(master_url) ELSE None,
     master_ui_url |-> IF ms.ready_replicas > 0 THEN Some(master_ui_url) ELSE None,
     error |-> (Truthy(ms.error) \/ Truthy(ws.error))]

NoClusterStatus == SparkClusterStatus(DeploymentStatus(FALSE), DeploymentStatus(FALSE))

ReadCall(name, resp) ==
    [verb |-> "read", kind |-> "Deployment", name |-> name,
     status |-> resp.status, resp |-> resp]

\* a query that follows a returned one answers with the remembered status
\* and reads nothing
CallGetClusterStatus_cached(p) ==
    /\ Idle(p)
    /\ op' = [op EXCEPT ![p] = "get_cluster_status"]
    /\ step' = [step EXCEPT ![p] = 1]
    /\ calls' = [calls EXCEPT ![p] = <<>>]
    /\ results' = [results EXCEPT ![p] = <<>>]
    /\ outcome' = [outcome EXCEPT ![p] = NoOutcome]
    /\ IF op[p] = "get_cluster_status" /\ pc[p] = "returned"
       THEN /\ pc' = [pc EXCEPT ![p] = "returned"]
            /\ UNCHANGED statusvars
       ELSE /\ pc' = [pc EXCEPT ![p] = "read_master"]
            /\ master_status' = [master_status EXCEPT ![p] = DeploymentStatus(FALSE)]
            /\ worker_status' = [worker_status EXCEPT ![p] = DeploymentStatus(FALSE)]
            /\ cluster_status' = [cluster_status EXCEPT ![p] = NoClusterStatus]
    /\ UNCHANGED <<platform, cfg, idvars>>

\* a caller invokes get_cluster_status: its locals are new for each call
CallGetClusterStatus(p) ==
    /\ Idle(p)
    /\ op' = [op EXCEPT ![p] = "get_cluster_status"]
    /\ pc' = [pc EXCEPT ![p] = "read_master"]
    /\ step' = [step EXCEPT ![p] = 1]
    /\ calls' = [calls EXCEPT ![p] = <<>>]
    /\ results' = [results EXCEPT ![p] = <<>>]
    /\ outcome' = [outcome EXCEPT ![p] = NoOutcome]
    /\ master_status' = [master_status EXCEPT ![p] = DeploymentStatus(FALSE)]
    /\ worker_status' = [worker_status EXCEPT ![p] = DeploymentStatus(FALSE)]
    /\ cluster_status' = [cluster_status EXCEPT ![p] = NoClusterStatus]
    /\ UNCHANGED <<platform, cfg, idvars>>

\* only ApiException is caught: any other exception leaves the function
HandlerCatches_api_only(exc) == exc = "ApiException"

\* `except Exception as e` of _get_deployment_status: the exception classes
\* the handler catches (ApiException is a subclass of Exception)
HandlerCatches(exc) == exc \in {"ApiException", "Exception"}

\* the read raised and _get_deployment_status let the exception through
Propagates(resp) == resp.exc # "none" /\ ~HandlerCatches(resp.exc)

Raised(resp) == [exc |-> resp.exc, status |-> resp.status, message |-> resp.text]

\* a failed master read ends the query: the worker is not read
ReadMaster_stop_on_error(p) ==
    /\ op[p] = "get_cluster_status"
    /\ pc[p] = "read_master"
    /\ \E resp \in ReadResponses(master_name) :
         LET ms == get_deployment_status(resp)
         IN /\ calls' = [calls EXCEPT ![p] = Append(@, ReadCall(master_name, resp))]
            /\ master_status' = [master_status EXCEPT ![p] = ms]
            /\ IF ms.error # None
               THEN /\ pc' = [pc EXCEPT ![p] = "returned"]
                    /\ cluster_status' = [cluster_status EXCEPT ![p] =
                                             SparkClusterStatus(ms, DeploymentStatus(FALSE))]
                    /\ UNCHANGED step
               ELSE /\ pc' = [pc EXCEPT ![p] = "read_worker"]
                    /\ step' = [step EXCEPT ![p] = 2]
                    /\ UNCHANGED cluster_status
    /\ UNCHANGED <<platform, op, cfg, results, outcome, worker_status, idvars>>

\* master_status = self._get_deployment_status(self.master_name)
ReadMaster(p) ==
    /\ op[p] = "get_cluster_status"
    /\ pc[p] = "read_master"
    /\ \E resp \in ReadResponses(master_name) :
         /\ calls' = [calls EXCEPT ![p] = Append(@, ReadCall(master_name, resp))]
         /\ IF Propagates(resp)
            THEN /\ pc' = [pc EXCEPT ![p] = "raised"]
                 /\ outcome' = [outcome EXCEPT ![p] = Raised(resp)]
                 /\ UNCHANGED <<step, master_status>>
            ELSE /\ master_status' = [master_status EXCEPT ![p] = get_deployment_status(resp)]
                 /\ pc' = [pc EXCEPT ![p] = "read_worker"]
                 /\ step' = [step EXCEPT ![p] = 2]
                 /\ UNCHANGED outcome
    /\ UNCHANGED <<platform, op, cfg, results, worker_status, cluster_status, idvars>>

\* a worker deployment found without ready replicas is removed by the query
ReadWorker_cleanup(p) ==
    /\ op[p] = "get_cluster_status"
    /\ pc[p] = "read_worker"
    /\ \E resp \in ReadResponses(worker_name) :
         /\ calls' = [calls EXCEPT ![p] = Append(@, ReadCall(worker_name, resp))]
         /\ IF Propagates(resp)
            THEN /\ pc' = [pc EXCEPT ![p] = "raised"]
                 /\ outcome' = [outcome EXCEPT ![p] = Raised(resp)]
                 /\ UNCHANGED <<platform, worker_status, cluster_status>>
            ELSE LET ws == get_deployment_status(resp)
                 IN /\ worker_status' = [worker_status EXCEPT ![p] = ws]
                    /\ cluster_status' = [cluster_status EXCEPT ![p] =
                                             SparkClusterStatus(master_status[p], ws)]
                    /\ pc' = [pc EXCEPT ![p] = "returned"]
                    /\ platform' = IF ws.exists /\ ws.ready_replicas = 0
                                   THEN platform \ Named("Deployment", worker_name)
                                   ELSE platform
                    /\ UNCHANGED outcome
    /\ UNCHANGED <<op, step, cfg, results, master_status, idvars>>

\* worker_status = self._get_deployment_status(self.worker_name), then the
\* SparkClusterStatus is built and returned
ReadWorker(p) ==
    /\ op[p] = "get_cluster_status"
    /\ pc[p] = "read_worker"
    /\ \E resp \in ReadResponses(worker_name) :
         /\ calls' = [calls EXCEPT ![p] = Append(@, ReadCall(worker_name, resp))]
         /\ IF Propagates(resp)
            THEN /\ pc' = [pc EXCEPT ![p] = "raised"]
                 /\ outcome' = [outcome EXCEPT ![p] = Raised(resp)]
                 /\ UNCHANGED <<worker_status, cluster_status>>
            ELSE LET ws == get_deployment_status(resp)
                 IN /\ worker_status' = [worker_status EXCEPT ![p] = ws]
                    /\ cluster_status' = [cluster_status EXCEPT ![p] =
                                             SparkClusterStatus(master_status[p], ws)]
                    /\ pc' = [pc EXCEPT ![p] = "returned"]
                    /\ UNCHANGED outcome
    /\ UNCHANGED <<platform, op, step, cfg, results, master_status, idvars>>

(* ------------------------------------------------------------------ *)
(* Construction: validate_environment, __init__ and the name sanitizer *)
(* ------------------------------------------------------------------ *)

\* Strings that are taken apart are sequences of one-character strings;
\* str(cs) is the string of such a sequence.
RECURSIVE str(_)
str(cs) == IF cs = <<>> THEN "" ELSE cs[1] \o str(Tail(cs))

\* the characters usernames are drawn from: lowercase and uppercase letters,
\* a digit, the underscore, other punctuation, and the two allowed signs
Alphabet == {"a", "B", "1", "_", "@", "-", "."}

Strings(n) == UNION {[1..k -> Alphabet] : k \in 0..n}

\* NoValue is os.environ.get's None; "" and " " are an empty and a
\* whitespace-only value
NoValue == "<None>"

\* str.lower() on the characters of the model
LowerOf == [A |-> "a", B |-> "b"]

lower(ch) == IF ch \in DOMAIN LowerOf THEN LowerOf[ch] ELSE ch

str_lower(s) == [i \in 1..Len(s) |-> lower(s[i])]

\* str.strip() on the values of the model
strip(value) == IF value = " " THEN "" ELSE value

REQUIRED_ENV_VARS ==
    <<"KUBE_NAMESPACE", "SPARK_IMAGE", "BERDL_POSTGRES_USER",
      "BERDL_POSTGRES_PASSWORD", "BERDL_POSTGRES_DB", "BERDL_POSTGRES_URL",
      "BERDL_REDIS_HOST", "BERDL_REDIS_PORT", "BERDL_HIVE_METASTORE_URI",
      "BERDL_DELTALAKE_WAREHOUSE_DIRECTORY_PATH", "SPARK_MASTER_PORT",
      "SPARK_MASTER_WEBUI_PORT", "DEFAULT_SPARK_WORKER_CORES",
      "DEFAULT_SPARK_WORKER_MEMORY", "SPARK_WORKER_PORT",
      "SPARK_WORKER_WEBUI_PORT">>

\* the settings of a deployed service: the tests' sample_env_vars
sample_env_vars ==
    {REQUIRED_ENV_VARS[i] : i \in DOMAIN REQUIRED_ENV_VARS} \cup {"BERDL_TOLERATIONS"}

SetValue(var) == IF var = "KUBE_NAMESPACE" THEN namespace ELSE "value"

\* os.environ with every setting of sample_env_vars set
os_environ == [var \in sample_env_vars |-> SetValue(var)]

\* the environments in which at most MaxMissing settings are unset, empty or
\* blank
Environments ==
    UNION {{[var \in sample_env_vars |-> IF var \in M THEN k[var] ELSE SetValue(var)] :
               k \in [M -> {NoValue, "", " "}]} :
           M \in {S \in SUBSET sample_env_vars : Cardinality(S) <= MaxMissing}}

\* validate_environment: the names of all required settings that are unset
\* or blank, in REQUIRED_ENV_VARS' order; empty when the environment is valid
missing_vars(env) ==
    LET absent(var) == LET value == env[var]
                       IN  (value = NoValue \/ value = "") \/ strip(value) = ""
    IN  SelectSeq(REQUIRED_ENV_VARS, absent)

validate_environment(env) ==
    IF missing_vars(env) # <<>>
    THEN [raised |-> "ValueError", missing |-> missing_vars(env)]
    ELSE [raised |-> "", missing |-> <<>>]

\* the name sanitizer: lowercase, every disallowed character replaced by
\* "-", runs of "-" collapsed to one, leading and trailing "-" and "."
\* stripped, the result cut to the name limit
Allowed == {"a", "b", "e", "r", "s", "u", "1", "-", "."}

replace_disallowed(s) == [i \in 1..Len(s) |-> IF s[i] \in Allowed THEN s[i] ELSE "-"]

RECURSIVE collapse(_)
collapse(s) ==
    IF Len(s) < 2 THEN s
    ELSE IF s[1] = "-" /\ s[2] = "-" THEN collapse(Tail(s))
         ELSE <<s[1]>> \o collapse(Tail(s))

strip_ends(s) ==
    LET inner == {i \in 1..Len(s) : s[i] \notin {"-", "."}}
    IN  IF inner = {} THEN <<>>
        ELSE LET lo == CHOOSE i \in inner : \A j \in inner : i <= j
                 hi == CHOOSE i \in inner : \A j \in inner : j <= i
             IN  SubSeq(s, lo, hi)

\* the platform's limit on a name's length, 253, scaled to the strings of
\* the model: usernames fit in it, the sanitizer's inputs can exceed it
K8S_NAME_MAX == MaxLen

truncate(s) == SubSeq(s, 1, IF Len(s) < K8S_NAME_MAX THEN Len(s) ELSE K8S_NAME_MAX)

sanitize_k8s_name(name) ==
    truncate(strip_ends(collapse(replace_disallowed(str_lower(name)))))

\* str(uuid.uuid4())[:8]: eight lowercase hexadecimal characters
Uuid8 == {<<"0", "0", "0", "0", "0", "0", "0", "0">>,
          <<"3", "f", "a", "9", "0", "c", "1", "e">>}

SparkPrefix == <<"s", "p", "a", "r", "k", "-">>
MasterPrefix == <<"s", "p", "a", "r", "k", "-", "m", "a", "s", "t", "e", "r", "-">>
WorkerPrefix == <<"s", "p", "a", "r", "k", "-", "w", "o", "r", "k", "e", "r", "-">>

\* a manager whose constructor has not run yet
NewManager(username) ==
    [state |-> "new", username |-> username, namespace |-> "",
     cluster_id |-> "", master_name |-> "", worker_name |-> "",
     clients |-> FALSE, exception |-> "", missing |-> <<>>]

\* KubeSparkManager.__init__: validation first; then the identity; the
\* platform clients last
KubeSparkManager(username, env, uuid) ==
    LET env_vars == validate_environment(env)
    IN  IF env_vars.raised # ""
        THEN [NewManager(username) EXCEPT !.state = "raised",
                                          !.exception = env_vars.raised,
                                          !.missing = env_vars.missing]
        ELSE [state |-> "constructed",
              username |-> username,
              namespace |-> env["KUBE_NAMESPACE"],
              cluster_id |-> str(SparkPrefix \o str_lower(username) \o <<"-">> \o uuid),
              master_name |-> str(MasterPrefix \o str_lower(username)),
              worker_name |-> str(WorkerPrefix \o str_lower(username)),
              clients |-> TRUE,
              exception |-> "",
              missing |-> <<>>]

\* the user of the callers of create_cluster, delete_cluster and
\* get_cluster_status
User == <<"u", "s", "e", "r">>

\* the managers of those callers, constructed in a complete environment
Manager(p) ==
    KubeSparkManager(User, os_environ,
                     IF p = "a" THEN <<"0", "0", "0", "0", "0", "0", "0", "0">>
                                ELSE <<"3", "f", "a", "9", "0", "c", "1", "e">>)

\* a caller constructs its manager
Construct(p) ==
    /\ self[p].state = "new"
    /\ \E uuid \in Uuid8 :
           self' = [self EXCEPT ![p] = KubeSparkManager(self[p].username, environ, uuid)]
    /\ UNCHANGED <<platform, pc, op, step, cfg, calls, results, outcome,
                   statusvars, environ, sanitized>>

\* the sanitizer's calls: no call yet, one call, and a second call on the
\* first one's output
NotCalled == [input |-> <<>>, calls |-> 0, output |-> <<>>, again |-> <<>>]

Sanitize ==
    /\ sanitized.calls = 0
    /\ sanitized' = [sanitized EXCEPT !.calls = 1,
                                      !.output = sanitize_k8s_name(sanitized.input)]
    /\ UNCHANGED <<platform, pc, op, step, cfg, calls, results, outcome,
                   statusvars, environ, self>>

SanitizeAgain ==
    /\ sanitized.calls = 1
    /\ sanitized' = [sanitized EXCEPT !.calls = 2,
                                      !.again = sanitize_k8s_name(sanitized.output)]
    /\ UNCHANGED <<platform, pc, op, step, cfg, calls, results, outcome,
                   statusvars, environ, self>>

(* ------------------------------------------------------------------ *)
(* The system                                                          *)
(* ------------------------------------------------------------------ *)

Init ==
    /\ platform = {}
    /\ pc = [p \in Procs |-> "idle"]
    /\ op = [p \in Procs |-> "none"]
    /\ step = [p \in Procs |-> 0]
    /\ cfg = [p \in Procs |-> 0]
    /\ calls = [p \in Procs |-> <<>>]
    /\ results = [p \in Procs |-> <<>>]
    /\ outcome = [p \in Procs |-> NoOutcome]
    /\ master_status = [p \in Procs |-> DeploymentStatus(FALSE)]
    /\ worker_status = [p \in Procs |-> DeploymentStatus(FALSE)]
    /\ cluster_status = [p \in Procs |-> NoClusterStatus]
    /\ environ = os_environ
    /\ self = [p \in Procs |-> Manager(p)]
    /\ sanitized = NotCalled

Next ==
    \E p \in Procs :
        \/ CallCreateCluster(p)
        \/ FirstCreate(p)
        \/ ReplaceDelete(p)
        \/ SecondCreate(p)
        \/ CallDeleteCluster(p)
        \/ AttemptDelete(p)

Spec == Init /\ [][Next]_vars

\* One caller alone on the platform: create_cluster and delete_cluster calls
\* of caller "a", nobody else acting.
NextSolo ==
    \/ CallCreateCluster("a")
    \/ FirstCreate("a")
    \/ ReplaceDelete("a")
    \/ SecondCreate("a")
    \/ CallDeleteCluster("a")
    \/ AttemptDelete("a")

SpecSolo == Init /\ [][NextSolo]_vars

\* Status queries: caller "a" runs get_cluster_status against a platform on
\* which any part of a cluster created by caller "b" is present.
InitStatus ==
    /\ platform \in SUBSET {[kind |-> r.kind, name |-> r.name, body |-> r.body] :
                               r \in {CreateOrder("b", 1)[i] : i \in 1..3}}
    /\ pc = [p \in Procs |-> "idle"]
    /\ op = [p \in Procs |-> "none"]
    /\ step = [p \in Procs |-> 0]
    /\ cfg = [p \in Procs |-> 0]
    /\ calls = [p \in Procs |-> <<>>]
    /\ results = [p \in Procs |-> <<>>]
    /\ outcome = [p \in Procs |-> NoOutcome]
    /\ master_status = [p \in Procs |-> DeploymentStatus(FALSE)]
    /\ worker_status = [p \in Procs |-> DeploymentStatus(FALSE)]
    /\ cluster_status = [p \in Procs |-> NoClusterStatus]
    /\ environ = os_environ
    /\ self = [p \in Procs |-> Manager(p)]
    /\ sanitized = NotCalled

NextStatus ==
    \/ CallGetClusterStatus("a")
    \/ ReadMaster("a")
    \/ ReadWorker("a")

SpecStatus == InitStatus /\ [][NextStatus]_vars

\* delete_cluster's tally on its own, applied to any three records of the
\* type _attempt_delete returns (dict[str, bool]).
DeletionRecords == [deleted : BOOLEAN, resource_exists : BOOLEAN]

InitTally ==
    /\ platform = {}
    /\ pc = [p \in Procs |-> "tally"]
    /\ op = [p \in Procs |-> "delete_cluster"]
    /\ step = [p \in Procs |-> 3]
    /\ cfg = [p \in Procs |-> 0]
    /\ calls = [p \in Procs |-> <<>>]
    /\ results \in [Procs -> [1..3 -> DeletionRecords]]
    /\ outcome = [p \in Procs |-> NoOutcome]
    /\ master_status = [p \in Procs |-> DeploymentStatus(FALSE)]
    /\ worker_status = [p \in Procs |-> DeploymentStatus(FALSE)]
    /\ cluster_status = [p \in Procs |-> NoClusterStatus]
    /\ environ = os_environ
    /\ self = [p \in Procs |-> Manager(p)]
    /\ sanitized = NotCalled

\* resources_found, resources_deleted, then the message or ClusterDeletionError
Tally(p) ==
    /\ op[p] = "delete_cluster"
    /\ pc[p] = "tally"
    /\ outcome' = [outcome EXCEPT ![p] = delete_cluster_outcome(results[p])]
    /\ pc' = [pc EXCEPT ![p] =
                 IF delete_cluster_outcome(results[p]).exc = "none"
                 THEN "returned" ELSE "raised"]
    /\ UNCHANGED <<platform, op, step, cfg, calls, results, statusvars, idvars>>

NextTally == \E p \in Procs : Tally(p)

SpecTally == InitTally /\ [][NextTally]_vars

\* Construction: each caller constructs its manager once; caller "a" for any
\* username in a complete environment, or for the usual user in any
\* environment; caller "b" for the usual user.
InitConstruct ==
    /\ platform = {}
    /\ pc = [p \in Procs |-> "idle"]
    /\ op = [p \in Procs |-> "none"]
    /\ step = [p \in Procs |-> 0]
    /\ cfg = [p \in Procs |-> 0]
    /\ calls = [p \in Procs |-> <<>>]
    /\ results = [p \in Procs |-> <<>>]
    /\ outcome = [p \in Procs |-> NoOutcome]
    /\ master_status = [p \in Procs |-> DeploymentStatus(FALSE)]
    /\ worker_status = [p \in Procs |-> DeploymentStatus(FALSE)]
    /\ cluster_status = [p \in Procs |-> NoClusterStatus]
    /\ sanitized = NotCalled
    /\ \/ /\ environ = os_environ
          /\ \E username \in Strings(MaxLen) :
                 self = [p \in Procs |-> IF p = "a" THEN NewManager(username)
                                                    ELSE NewManager(User)]
       \/ /\ environ \in Environments
          /\ self = [p \in Procs |-> NewManager(User)]

NextConstruct == \E p \in Procs : Construct(p)

SpecConstruct == InitConstruct /\ [][NextConstruct]_vars

\* The sanitizer on its own, applied to any string of the model and then to
\* its own output.
InitSanitize ==
    /\ platform = {}
    /\ pc = [p \in Procs |-> "idle"]
    /\ op = [p \in Procs |-> "none"]
    /\ step = [p \in Procs |-> 0]
    /\ cfg = [p \in Procs |-> 0]
    /\ calls = [p \in Procs |-> <<>>]
    /\ results = [p \in Procs |-> <<>>]
    /\ outcome = [p \in Procs |-> NoOutcome]
    /\ master_status = [p \in Procs |-> DeploymentStatus(FALSE)]
    /\ worker_status = [p \in Procs |-> DeploymentStatus(FALSE)]
    /\ cluster_status = [p \in Procs |-> NoClusterStatus]
    /\ environ = os_environ
    /\ self = [p \in Procs |-> Manager(p)]
    /\ \E input \in Strings(MaxLen + 1) : sanitized = [NotCalled EXCEPT !.input = input]

NextSanitize == Sanitize \/ SanitizeAgain

SpecSanitize == InitSanitize /\ [][NextSanitize]_vars

\* One operation of caller "a", of any of the three kinds, on a platform on
\* which any part of a cluster is present.  While "a" runs create_cluster or
\* delete_cluster, caller "b" runs its own create_cluster and delete_cluster
\* calls against the same names.
NextOnce ==
    \/ pc["a"] = "idle" /\ CallCreateCluster("a")
    \/ pc["a"] = "idle" /\ CallDeleteCluster("a")
    \/ pc["a"] = "idle" /\ CallGetClusterStatus("a")
    \/ FirstCreate("a")
    \/ ReplaceDelete("a")
    \/ SecondCreate("a")
    \/ AttemptDelete("a")
    \/ ReadMaster("a")
    \/ ReadWorker("a")
    \/ /\ op["a"] \in {"create_cluster", "delete_cluster"}
       /\ \/ CallCreateCluster("b")
          \/ FirstCreate("b")
          \/ ReplaceDelete("b")
          \/ SecondCreate("b")
          \/ CallDeleteCluster("b")
          \/ AttemptDelete("b")

SpecOnce == InitStatus /\ [][NextOnce]_vars

(* ------------------------------------------------------------------ *)
(* Vocabulary of the properties                                        *)
(* ------------------------------------------------------------------ *)

InCreate(p) == op[p] = "create_cluster"
InDelete(p) == op[p] = "delete_cluster"

NCalls(p) == Len(calls[p])
Status(p, i) == calls[p][i].status
Verbs(p) == [i \in 1..NCalls(p) |-> calls[p][i].verb]
Creates(p) == Cardinality({i \in 1..NCalls(p) : calls[p][i].verb = "create"})
Deletes(p) == Cardinality({i \in 1..NCalls(p) : calls[p][i].verb = "delete"})

\* every call of the log addresses the resource of its first call
OneResource(p) ==
    \A i \in 1..NCalls(p) :
        calls[p][i].kind = calls[p][1].kind /\ calls[p][i].name = calls[p][1].name

\* p's latest create-or-replace call has returned normally, and calls[p] is
\* the complete log of that call
CorReturned(p) ==
    /\ InCreate(p)
    /\ \/ pc[p] = "create1" /\ step[p] > 1
       \/ pc[p] = "returned"

\* p's create-or-replace call has raised, and calls[p] is its complete log
CorRaised(p) == InCreate(p) /\ pc[p] = "raised"

\* p makes a platform call in this step
Stepped(p) == calls'[p] # calls[p] /\ calls'[p] # <<>>
LastStatus(p) == calls'[p][Len(calls'[p])].status

(* ------------------------------------------------------------------ *)
(* C1 .. C7: create-or-replace                                         *)
(* ------------------------------------------------------------------ *)

\* C1: when the first create of a create-or-replace call answers 409, the call
\* issues exactly one delete of that resource and then exactly one more
\* create, in that order (2 creates, 1 delete), and it returns normally when
\* the delete and the second create succeed.
C1_ConflictDeletesThenRecreates ==
    \A p \in Procs :
        (InCreate(p) /\ NCalls(p) >= 1 /\ Status(p, 1) = Conflict) =>
            /\ OneResource(p)
            /\ NCalls(p) = 1 => (pc[p] = "delete" /\ Verbs(p) = <<"create">>)
            /\ NCalls(p) = 2 => Verbs(p) = <<"create", "delete">>
            /\ (NCalls(p) = 2 /\ Status(p, 2) = NoException) => pc[p] = "create2"
            /\ NCalls(p) >= 3 =>
                    /\ Verbs(p) = <<"create", "delete", "create">>
                    /\ Status(p, 2) = NoException
            /\ (NCalls(p) = 3 /\ Status(p, 3) = NoException) => CorReturned(p)
            /\ CorReturned(p) => (Creates(p) = 2 /\ Deletes(p) = 1)

C1_Replaced(p, kind) ==
    /\ CorReturned(p)
    /\ NCalls(p) = 3
    /\ calls[p][1].kind = kind
    /\ Status(p, 1) = Conflict
    /\ Status(p, 2) = NoException
    /\ Status(p, 3) = NoException

C1_Witness ==
    /\ \E p \in Procs : C1_Replaced(p, "Deployment")
    /\ \E p \in Procs : C1_Replaced(p, "Service")

\* C2: when the first create succeeds, the create-or-replace call has made
\* exactly one create and no delete, and it returns normally.
C2_FirstCreateSucceeds ==
    \A p \in Procs :
        (InCreate(p) /\ NCalls(p) >= 1 /\ Status(p, 1) = NoException) =>
            /\ CorReturned(p)
            /\ NCalls(p) = 1
            /\ Creates(p) = 1
            /\ Deletes(p) = 0

C2_Created(p, kind) ==
    /\ CorReturned(p)
    /\ NCalls(p) = 1
    /\ calls[p][1].kind = kind
    /\ Status(p, 1) = NoException

C2_Witness ==
    /\ \E p \in Procs : C2_Created(p, "Deployment")
    /\ \E p \in Procs : C2_Created(p, "Service")

\* C3: a first create that fails with anything but 409 (404 included) makes
\* create-or-replace raise that same error at once: the failing create is the
\* call's only platform call (no delete, no second create) and the platform's
\* resources are as they were.
C3_OtherFailureRaisesAtOnce ==
    [][\A p \in Procs :
          (/\ InCreate(p)
           /\ pc[p] = "create1"
           /\ Stepped(p)
           /\ LastStatus(p) \notin {NoException, Conflict}) =>
              /\ pc'[p] = "raised"
              /\ outcome'[p] = ApiException(LastStatus(p))
              /\ NCalls(p)' = 1
              /\ platform' = platform]_vars

C3_Witness ==
    \E p \in Procs :
        /\ CorRaised(p)
        /\ NCalls(p) = 1
        /\ Status(p, 1) = NotFound
        /\ outcome[p] = ApiException(NotFound)

\* C4: after a conflict on the first create, a delete that fails with any
\* error (404 included) aborts create-or-replace with that error; the second
\* create is never attempted.
C4_DeleteFailureAborts ==
    \A p \in Procs :
        (/\ InCreate(p)
         /\ NCalls(p) >= 2
         /\ Status(p, 1) = Conflict
         /\ Status(p, 2) # NoException) =>
            /\ pc[p] = "raised"
            /\ outcome[p] = ApiException(Status(p, 2))
            /\ NCalls(p) = 2
            /\ Creates(p) = 1

C4_Witness ==
    /\ \E p \in Procs :
        /\ CorRaised(p)
        /\ Verbs(p) = <<"create", "delete">>
        /\ Status(p, 2) = NotFound
    /\ \E p \in Procs :
        /\ CorRaised(p)
        /\ Verbs(p) = <<"create", "delete">>
        /\ Status(p, 2) = ServerError

\* C5: a second create that fails with any error makes create-or-replace
\* raise that error unchanged and attempt nothing further; one call makes at
\* most 2 creates and at most 1 delete.
C5_SecondCreateFailureIsFinal ==
    \A p \in Procs :
        InCreate(p) =>
            /\ Creates(p) <= 2
            /\ Deletes(p) <= 1
            /\ (NCalls(p) >= 3 /\ Status(p, 3) # NoException) =>
                    /\ pc[p] = "raised"
                    /\ outcome[p] = ApiException(Status(p, 3))
                    /\ NCalls(p) = 3

C5_Witness ==
    \E p \in Procs :
        /\ CorRaised(p)
        /\ Verbs(p) = <<"create", "delete", "create">>
        /\ Status(p, 3) = Conflict

\* C6: in the step in which a create-or-replace call returns normally, exactly
\* one resource of that kind and name is on the platform and its body is the
\* manifest the call was given, whether the name was free or taken before.
C6_OneResourceWithTheManifest ==
    [][\A p \in Procs :
          (/\ InCreate(p)
           /\ pc[p] \in {"create1", "delete", "create2"}
           /\ (step'[p] = step[p] + 1 \/ pc'[p] = "returned")) =>
              LET r == CreateOrder(p, cfg[p])[step[p]]
                  now == {x \in platform' : x.kind = r.kind /\ x.name = r.name}
              IN /\ Cardinality(now) = 1
                 /\ \A x \in now : x.body = r.body]_vars

C6_Witness ==
    \E p, q \in Procs :
        /\ C1_Replaced(p, "Deployment")
        /\ calls[p][1].name = master_name
        /\ master_deployment(p, cfg[p]) \in {x.body : x \in platform}
        /\ C2_Created(q, "Deployment")
        /\ calls[q][1].name = worker_name
        /\ worker_deployment(q, cfg[q]) \in {x.body : x \in platform}

\* C7 as claimed: no create-or-replace (hence no create_cluster) ends by
\* raising a 409 to its caller, whatever other callers do.
C7_NeverRaisesConflict ==
    \A p \in Procs : ~(CorRaised(p) /\ outcome[p] = ApiException(Conflict))

\* C7 as the code has it: the 409 of the first create is never surfaced (it
\* always starts the replace); a 409 reaches the caller only from the second
\* create, after this call's own delete succeeded, which takes another caller
\* re-creating the name in between.
C7_OnlySecondCreateConflictSurfaces ==
    \A p \in Procs :
        (CorRaised(p) /\ outcome[p] = ApiException(Conflict)) =>
            /\ Verbs(p) = <<"create", "delete", "create">>
            /\ Status(p, 1) = Conflict
            /\ Status(p, 2) = NoException
            /\ Status(p, 3) = Conflict

C7_Witness ==
    \E p \in Procs :
        /\ CorRaised(p)
        /\ outcome[p] = ApiException(Conflict)
        /\ calls[p][1].kind = "Deployment"
        /\ NCalls(p) = 3

(* ------------------------------------------------------------------ *)
(* C8 .. C10: delete_cluster                                           *)
(* ------------------------------------------------------------------ *)

\* C8: delete_cluster attempts its deletes in the order worker deployment,
\* master deployment, master service; a delete that fails with anything but
\* 404 halts the sequence: no later resource is attempted.
C8_DeleteOrderAndHalt ==
    \A p \in Procs :
        InDelete(p) =>
            /\ NCalls(p) <= 3
            /\ \A i \in 1..NCalls(p) : calls[p][i].verb = "delete"
            /\ NCalls(p) >= 1 =>
                  (calls[p][1].kind = "Deployment" /\ calls[p][1].name = worker_name)
            /\ NCalls(p) >= 2 =>
                  (calls[p][2].kind = "Deployment" /\ calls[p][2].name = master_name)
            /\ NCalls(p) >= 3 =>
                  (calls[p][3].kind = "Service" /\ calls[p][3].name = master_name)
            /\ pc[p] = "attempt_delete" => NCalls(p) = step[p] - 1
            /\ pc[p] = "returned" => NCalls(p) = 3
            /\ \A i \in 1..NCalls(p) :
                  Status(p, i) \notin {NoException, NotFound} =>
                      (i = NCalls(p) /\ pc[p] = "raised")

C8_Witness ==
    /\ \E p \in Procs :
        /\ InDelete(p)
        /\ pc[p] = "raised"
        /\ NCalls(p) = 1
        /\ Status(p, 1) = ServerError
    /\ \E p \in Procs :
        /\ InDelete(p)
        /\ pc[p] = "returned"
        /\ NCalls(p) = 3

\* C9: when delete_cluster's first delete succeeds and its second fails with
\* an error other than 404, delete_cluster raises that provider error, never
\* attempts the third resource, and does nothing to restore the first one:
\* it issues no create and the failing step leaves the platform as it was.
C9_SecondDeleteFailure ==
    [][\A p \in Procs :
          /\ (/\ InDelete(p)
              /\ pc[p] = "attempt_delete"
              /\ step[p] = 2
              /\ Status(p, 1) = NoException
              /\ Stepped(p)
              /\ LastStatus(p) \notin {NoException, NotFound}) =>
                 /\ pc'[p] = "raised"
                 /\ outcome'[p] = ApiException(LastStatus(p))
                 /\ platform' = platform
          /\ (/\ InDelete(p)'
              /\ NCalls(p)' >= 2
              /\ Status(p, 1)' = NoException
              /\ Status(p, 2)' \notin {NoException, NotFound}) =>
                 /\ pc'[p] = "raised"
                 /\ outcome'[p] = ApiException(Status(p, 2)')
                 /\ NCalls(p)' = 2
                 /\ Creates(p)' = 0]_vars

C9_Witness ==
    \E p \in Procs :
        /\ InDelete(p)
        /\ pc[p] = "raised"
        /\ NCalls(p) = 2
        /\ Status(p, 1) = NoException
        /\ Status(p, 2) = ServerError
        /\ outcome[p] = ApiException(ServerError)

\* C10: when every delete of delete_cluster answers 404, delete_cluster makes
\* all three attempts, returns the "no resources found" message, and none of
\* its steps changes the platform's resources.
C10_NothingToDelete ==
    [][\A p \in Procs :
          /\ (/\ InDelete(p)
              /\ pc[p] = "attempt_delete"
              /\ Stepped(p)
              /\ LastStatus(p) = NotFound) => platform' = platform
          /\ (/\ InDelete(p)'
              /\ NCalls(p)' >= 1
              /\ \A i \in 1..NCalls(p)' : Status(p, i)' = NotFound) =>
                 \/ pc'[p] = "attempt_delete" /\ NCalls(p)' < 3
                 \/ /\ NCalls(p)' = 3
                    /\ pc'[p] = "returned"
                    /\ outcome'[p].exc = "none"
                    /\ outcome'[p].message = "No Spark cluster resources found"]_vars

C10_Witness ==
    \E p \in Procs :
        /\ InDelete(p)
        /\ pc[p] = "returned"
        /\ NCalls(p) = 3
        /\ \A i \in 1..3 : Status(p, i) = NotFound
        /\ outcome[p].message = "No Spark cluster resources found"

(* ------------------------------------------------------------------ *)
(* C11 .. C15: delete_cluster's outcome                                *)
(* ------------------------------------------------------------------ *)

AllStatusesIn(p, S) == \A i \in 1..NCalls(p) : Status(p, i) \in S

NoneOfTheThree ==
    /\ ~Exists("Deployment", worker_name)
    /\ ~Exists("Deployment", master_name)
    /\ ~Exists("Service", master_name)

\* C11: when the three resources are present and every delete succeeds,
\* delete_cluster returns the "deleted successfully" message, and afterwards
\* (nobody else acting) none of the three resources exists.
C11_DeleteAllPresent ==
    \A p \in Procs :
        (InDelete(p) /\ NCalls(p) = 3 /\ AllStatusesIn(p, {NoException})) =>
            /\ pc[p] = "returned"
            /\ outcome[p].exc = "none"
            /\ outcome[p].message = "Spark cluster deleted successfully"
            /\ NoneOfTheThree

C11_Witness ==
    \E p \in Procs :
        /\ InDelete(p)
        /\ pc[p] = "returned"
        /\ NCalls(p) = 3
        /\ AllStatusesIn(p, {NoException})
        /\ outcome[p].message = "Spark cluster deleted successfully"
        /\ NoneOfTheThree

\* C12: a 404 is not a failure: whenever each of the three deletes either
\* succeeds or answers 404, delete_cluster never raises and returns "deleted
\* successfully" if some delete succeeded and "no resources found" if none did.
C12_NotFoundIsNotAFailure ==
    \A p \in Procs :
        (/\ InDelete(p)
         /\ AllStatusesIn(p, {NoException, NotFound})) =>
            /\ pc[p] # "raised"
            /\ NCalls(p) = 3 =>
                  /\ pc[p] = "returned"
                  /\ outcome[p].exc = "none"
                  /\ outcome[p].message =
                        IF \E i \in 1..3 : Status(p, i) = NoException
                        THEN "Spark cluster deleted successfully"
                        ELSE "No Spark cluster resources found"

\* worker present, master deployment and master service absent
C12_Witness ==
    \E p \in Procs :
        /\ InDelete(p)
        /\ pc[p] = "returned"
        /\ NCalls(p) = 3
        /\ Status(p, 1) = NoException
        /\ Status(p, 2) = NotFound
        /\ Status(p, 3) = NotFound
        /\ outcome[p].message = "Spark cluster deleted successfully"

NDeleted(p) == Cardinality({i \in 1..Len(results[p]) : results[p][i].deleted})
NFound(p) == Cardinality({i \in 1..Len(results[p]) : results[p][i].resource_exists})

\* C13: once the three attempts have returned, if the number of deleted
\* resources is above 0 and below the number of resources found,
\* delete_cluster raises ClusterDeletionError and does not report success.
C13_PartialCompletionRaises ==
    \A p \in Procs :
        (/\ InDelete(p)
         /\ pc[p] # "tally"
         /\ Len(results[p]) = 3
         /\ 0 < NDeleted(p)
         /\ NDeleted(p) < NFound(p)) =>
            /\ pc[p] = "raised"
            /\ outcome[p].exc = "ClusterDeletionError"

C13_Witness ==
    \E p \in Procs :
        /\ InDelete(p)
        /\ pc[p] = "raised"
        /\ NDeleted(p) = 1
        /\ NFound(p) = 3
        /\ outcome[p].exc = "ClusterDeletionError"

Fatal(p) == {i \in 1..NCalls(p) : Status(p, i) \notin {NoException, NotFound}}

\* C14: delete_cluster ends in exactly one of: success with a message, the
\* ClusterDeletionError, or the first fatal provider error of the sequence;
\* it returns success only when every resource found was deleted.
C14_ReturnsOrRaises ==
    \A p \in Procs :
        (InDelete(p) /\ pc[p] \in {"returned", "raised"}) =>
            LET success ==
                    /\ pc[p] = "returned"
                    /\ outcome[p].exc = "none"
                    /\ outcome[p].message \in {"Spark cluster deleted successfully",
                                               "No Spark cluster resources found"}
                partial ==
                    /\ pc[p] = "raised"
                    /\ outcome[p].exc = "ClusterDeletionError"
                provider ==
                    /\ pc[p] = "raised"
                    /\ Fatal(p) # {}
                    /\ \E i \in Fatal(p) :
                          /\ \A j \in Fatal(p) : i <= j
                          /\ outcome[p] = ApiException(Status(p, i))
            IN /\ success \/ partial \/ provider
               /\ ~(success /\ partial) /\ ~(success /\ provider) /\ ~(partial /\ provider)
               /\ success => (Fatal(p) = {} /\ NCalls(p) = 3 /\ NDeleted(p) = NFound(p))

C14_Witness ==
    \E p, q \in Procs :
        /\ InDelete(p) /\ pc[p] = "returned" /\ NDeleted(p) = 2
        /\ InDelete(q) /\ pc[q] = "raised" /\ NCalls(q) = 3
        /\ outcome[q] = ApiException(ServerError)

\* C15: an _attempt_delete that receives 404 returns {deleted: false,
\* resource_exists: false} without raising; one that succeeds returns
\* {deleted: true, resource_exists: true}; one that receives any other API
\* error raises that error.
C15_AttemptDeleteRecord ==
    \A p \in Procs :
        InDelete(p) =>
            /\ \A i \in 1..NCalls(p) :
                  /\ Status(p, i) = NoException =>
                        /\ i <= Len(results[p])
                        /\ results[p][i] = [deleted |-> TRUE, resource_exists |-> TRUE]
                  /\ Status(p, i) = NotFound =>
                        /\ i <= Len(results[p])
                        /\ results[p][i] = [deleted |-> FALSE, resource_exists |-> FALSE]
                  /\ Status(p, i) \notin {NoException, NotFound} =>
                        /\ Len(results[p]) = i - 1
                        /\ pc[p] = "raised"
                        /\ outcome[p] = ApiException(Status(p, i))
            /\ Len(results[p]) <= NCalls(p)

C15_Witness ==
    \E p \in Procs :
        /\ InDelete(p)
        /\ pc[p] = "raised"
        /\ NCalls(p) = 3
        /\ Status(p, 1) = NoException
        /\ Status(p, 2) = NotFound
        /\ Status(p, 3) = ServerError
        /\ Len(results[p]) = 2

(* ------------------------------------------------------------------ *)
(* C16 .. C20: the per-resource status read                            *)
(* ------------------------------------------------------------------ *)

InStatus(p) == op[p] = "get_cluster_status"

\* the per-resource reads p's query has made: what the platform answered and
\* the DeploymentStatus _get_deployment_status returned for it
StatusReads(p) ==
    IF ~InStatus(p) THEN {}
    ELSE {<<calls[p][1].resp, master_status[p]>> : i \in {1} \cap (1..NCalls(p))}
            \cup {<<calls[p][2].resp, worker_status[p]>> : i \in {2} \cap (1..NCalls(p))}

AllReads == UNION {StatusReads(p) : p \in Procs}

IsNotFound(resp) == resp.exc = "ApiException" /\ resp.status = NotFound

ZeroCounts(st) ==
    /\ st.replicas = 0
    /\ st.ready_replicas = 0
    /\ st.available_replicas = 0
    /\ st.unavailable_replicas = 0

\* C16 as claimed: a read that receives not-found yields exists false, all
\* four counts 0, is_ready false and error unset (None).
C16_NotFoundLeavesErrorUnset ==
    \A rd \in AllReads :
        IsNotFound(rd[1]) =>
            /\ rd[2].exists = FALSE
            /\ ZeroCounts(rd[2])
            /\ rd[2].is_ready = FALSE
            /\ rd[2].error = None

\* C16 as the code has it: a read that receives not-found yields exists
\* false, all four counts 0 and is_ready false, and its error field holds the
\* exception's text.
C16_NotFoundSetsError ==
    \A rd \in AllReads :
        IsNotFound(rd[1]) =>
            /\ rd[2].exists = FALSE
            /\ ZeroCounts(rd[2])
            /\ rd[2].is_ready = FALSE
            /\ rd[2].error = Some(rd[1].text)

C16_Witness ==
    \E p \in Procs :
        /\ InStatus(p)
        /\ NCalls(p) = 2
        /\ IsNotFound(calls[p][1].resp)
        /\ master_status[p].error = Some("(404) Reason: Not Found")
        /\ ~IsNotFound(calls[p][2].resp)

\* C17: a read that receives a 404 ApiException yields exists = False with a
\* populated (non-None) error message taken from the exception.
C17_NotFoundHasErrorMessage ==
    \A p \in Procs :
        InStatus(p) =>
            /\ (NCalls(p) >= 1 /\ Status(p, 1) = NotFound) =>
                  /\ ~master_status[p].exists
                  /\ master_status[p].error # None
                  /\ master_status[p].error = Some(calls[p][1].resp.text)
            /\ (NCalls(p) >= 2 /\ Status(p, 2) = NotFound) =>
                  /\ ~worker_status[p].exists
                  /\ worker_status[p].error # None
                  /\ worker_status[p].error = Some(calls[p][2].resp.text)

C17_Witness ==
    \E p \in Procs :
        /\ InStatus(p)
        /\ NCalls(p) = 2
        /\ Status(p, 1) = NotFound
        /\ Status(p, 2) = NotFound
        /\ ~worker_status[p].exists
        /\ worker_status[p].error # None

\* C18: a read that succeeds but whose object has no status payload yields
\* exists true, all four counts 0, is_ready false and the error
\* "Deployment status is None".
C18_MissingStatusPayload ==
    \A rd \in AllReads :
        (rd[1].exc = "none" /\ ~rd[1].has_status) =>
            /\ rd[2].exists = TRUE
            /\ ZeroCounts(rd[2])
            /\ rd[2].is_ready = FALSE
            /\ rd[2].error = Some("Deployment status is None")

C18_Witness ==
    \E p \in Procs :
        /\ InStatus(p)
        /\ NCalls(p) >= 1
        /\ calls[p][1].resp.exc = "none"
        /\ ~calls[p][1].resp.has_status
        /\ master_status[p].exists
        /\ master_status[p].error = Some("Deployment status is None")

Counters == {"replicas", "ready_replicas", "available_replicas", "unavailable_replicas"}

\* C19: when the status payload is present, each of the four counters that is
\* missing or null is reported as 0 and each that is present is reported with
\* its platform value.
C19_CountersDefaultToZero ==
    \A rd \in AllReads :
        (rd[1].exc = "none" /\ rd[1].has_status) =>
            \A f \in Counters :
                rd[2][f] = IF rd[1].payload[f] \in {Missing, Null} THEN 0
                           ELSE rd[1].payload[f]

C19_Witness ==
    \E p \in Procs :
        /\ InStatus(p)
        /\ NCalls(p) >= 1
        /\ calls[p][1].resp.has_status
        /\ calls[p][1].resp.payload =
              [replicas |-> Null, ready_replicas |-> Missing,
               available_replicas |-> MaxReplicas, unavailable_replicas |-> 0]
        /\ master_status[p].replicas = 0
        /\ master_status[p].available_replicas = MaxReplicas

ReadyOf(replicas, ready) ==
    get_deployment_status(
        ReadObject(TRUE, [replicas |-> replicas, ready_replicas |-> ready,
                          available_replicas |-> ready,
                          unavailable_replicas |-> replicas - ready])).is_ready

\* C20: every DeploymentStatus a status read returns, on every path, has
\* is_ready <=> (replicas > 0 /\ ready_replicas = replicas); in particular
\* (3,3) is ready, (3,1) and (0,0) are not.
C20_ReadyInvariant ==
    /\ \A rd \in AllReads :
          rd[2].is_ready <=> (rd[2].replicas > 0 /\ rd[2].ready_replicas = rd[2].replicas)
    /\ ReadyOf(3, 3)
    /\ ~ReadyOf(3, 1)
    /\ ~ReadyOf(0, 0)

C20_Witness ==
    \E p \in Procs :
        /\ InStatus(p)
        /\ NCalls(p) = 2
        /\ master_status[p].is_ready
        /\ master_status[p].replicas = MaxReplicas
        /\ worker_status[p].exists
        /\ worker_status[p].error = None
        /\ worker_status[p].replicas = 0
        /\ ~worker_status[p].is_ready

(* ------------------------------------------------------------------ *)
(* C21 .. C24: get_cluster_status                                      *)
(* ------------------------------------------------------------------ *)

StatusReturned(p) == InStatus(p) /\ pc[p] = "returned"

\* C21: status queries never raise: whatever the platform read does (success,
\* not-found, another API error, an unexpected exception), the query goes on
\* to return a status value, and a failed read is recorded as a string in the
\* error field of the status returned for it.
C21_StatusNeverRaises ==
    \A p \in Procs :
        InStatus(p) =>
            /\ pc[p] \in {"read_master", "read_worker", "returned"}
            /\ outcome[p].exc = "none"
            /\ pc[p] = "read_worker" => NCalls(p) = 1
            /\ pc[p] = "returned" => NCalls(p) = 2
            /\ \A rd \in StatusReads(p) :
                  rd[1].exc # "none" => rd[2].error = Some(rd[1].text)

C21_Witness ==
    \E p \in Procs :
        /\ StatusReturned(p)
        /\ calls[p][1].resp.exc = "Exception"
        /\ calls[p][2].resp.exc = "ApiException"
        /\ calls[p][2].resp.status = ServerError
        /\ cluster_status[p].master.error = Some("Test error")
        /\ cluster_status[p].workers.error = Some("(500) Reason: Server Error")

IsRead(call, name) ==
    call.verb = "read" /\ call.kind = "Deployment" /\ call.name = name

\* C22: get_cluster_status issues exactly two reads, the master deployment
\* first and the worker deployment second; a failed master read does not
\* prevent the worker read, and each reported status is the one of its own
\* read, whatever the other read gave.
C22_TwoIndependentReads ==
    \A p \in Procs :
        InStatus(p) =>
            /\ NCalls(p) <= 2
            /\ NCalls(p) >= 1 => IsRead(calls[p][1], master_name)
            /\ NCalls(p) >= 2 => IsRead(calls[p][2], worker_name)
            /\ NCalls(p) = 1 => pc[p] = "read_worker"
            /\ pc[p] = "returned" =>
                  /\ NCalls(p) = 2
                  /\ cluster_status[p].master = get_deployment_status(calls[p][1].resp)
                  /\ cluster_status[p].workers = get_deployment_status(calls[p][2].resp)

C22_Witness ==
    \E p \in Procs :
        /\ StatusReturned(p)
        /\ NCalls(p) = 2
        /\ calls[p][1].resp.exc = "ApiException"
        /\ calls[p][1].resp.status = ServerError
        /\ cluster_status[p].master.error # None
        /\ calls[p][2].resp.exc = "none"
        /\ cluster_status[p].workers.is_ready
        /\ cluster_status[p].workers.error = None

\* C23: in every SparkClusterStatus get_cluster_status returns, master_url
\* is set iff the master has ready_replicas > 0, master_ui_url is set in
\* exactly the same cases, whatever the worker's status is; both are None
\* when the master read answered not-found.
C23_UrlsIffMasterHasReadyReplicas ==
    \A p \in Procs :
        StatusReturned(p) =>
            LET cs == cluster_status[p]
            IN /\ cs.master_url # None <=> cs.master.ready_replicas > 0
               /\ cs.master_ui_url # None <=> cs.master.ready_replicas > 0
               /\ cs.master_url \in {None, Some("spark://spark-master-user.kube-ns:7077")}
               /\ cs.master_ui_url \in {None, Some("http://spark-master-user.kube-ns:8090")}
               /\ IsNotFound(calls[p][1].resp) =>
                     cs.master_url = None /\ cs.master_ui_url = None

\* master with a ready replica but not is_ready, worker read failed
C23_Witness ==
    \E p \in Procs :
        /\ StatusReturned(p)
        /\ cluster_status[p].master.ready_replicas = 1
        /\ cluster_status[p].master.replicas = 0
        /\ ~cluster_status[p].master.is_ready
        /\ cluster_status[p].workers.error # None
        /\ cluster_status[p].master_url = Some(master_url)
        /\ cluster_status[p].master_ui_url = Some(master_ui_url)

\* C24: the error flag of the returned SparkClusterStatus is true exactly
\* when the master status or the worker status has a non-None error field,
\* whatever the recorded string is (an empty one included), and false when
\* both error fields are None.
C24_ErrorFlagIsErrorPresence ==
    \A p \in Procs :
        StatusReturned(p) =>
            (cluster_status[p].error <=>
                (cluster_status[p].master.error # None
                    \/ cluster_status[p].workers.error # None))

(* ------------------------------------------------------------------ *)
(* C25, C26: create_cluster                                            *)
(* ------------------------------------------------------------------ *)

LastCall(p) == calls'[p][Len(calls'[p])]

Addresses(call, kind, name) == call.kind = kind /\ call.name = name

Alone(p) == \A q \in Procs \ {p} : op[q] = "none"

\* C25: create_cluster works on the master deployment, then the master
\* service, then the worker deployment; a failure of the worker deployment's
\* creation ends the call with the master deployment and service left as they
\* were (present, when nobody else acted) and no delete issued for them.
C25_OrderAndNoRollback ==
    [][\A p \in Procs :
          /\ (~InCreate(p) /\ InCreate(p)') => step'[p] = 1
          /\ (InCreate(p) /\ Stepped(p)) =>
                /\ step[p] = 1 => Addresses(LastCall(p), "Deployment", "spark-master-user")
                /\ step[p] = 2 => Addresses(LastCall(p), "Service", "spark-master-user")
                /\ step[p] = 3 => Addresses(LastCall(p), "Deployment", "spark-worker-user")
                /\ step'[p] \in {step[p], step[p] + 1}
                /\ step'[p] = step[p] + 1 =>
                      (LastCall(p).verb = "create" /\ LastStatus(p) = NoException)
          /\ (InCreate(p) /\ Stepped(p) /\ step[p] = 3) =>
                /\ Named("Deployment", master_name)' = Named("Deployment", master_name)
                /\ Named("Service", master_name)' = Named("Service", master_name)
          /\ (InCreate(p) /\ pc[p] = "raised" /\ calls'[p] # calls[p]) => ~InCreate(p)' \/ step'[p] = 1
          /\ (InCreate(p)' /\ pc'[p] = "raised" /\ step'[p] = 3 /\ Alone(p)') =>
                /\ Named("Deployment", master_name)' =
                       {[kind |-> "Deployment", name |-> master_name,
                         body |-> master_deployment(p, cfg'[p])]}
                /\ Named("Service", master_name)' =
                       {[kind |-> "Service", name |-> master_name,
                         body |-> master_service(p)]}]_vars

\* the worker deployment was replaced and its second create failed
C25_Witness ==
    \E p \in Procs :
        /\ InCreate(p)
        /\ pc[p] = "raised"
        /\ step[p] = 3
        /\ Alone(p)
        /\ Verbs(p) = <<"create", "delete", "create">>
        /\ outcome[p] = ApiException(ServerError)
        /\ Exists("Deployment", master_name)
        /\ Exists("Service", master_name)
        /\ ~Exists("Deployment", worker_name)

\* the resource of p's current create-or-replace is on the platform with p's manifest
Applied(p, i) ==
    LET r == CreateOrder(p, cfg[p])[i]
    IN Named(r.kind, r.name) = {[kind |-> r.kind, name |-> r.name, body |-> r.body]}

\* C26: create_cluster returns its result only after the third
\* create-or-replace, and it passes from one resource to the next and to its
\* return only by a create the platform accepted; any platform error other
\* than the conflict of a first create ends the call at once, raising that
\* error, and no further call is made.
C26_SucceedsOrRaisesTheCause ==
    [][\A p \in Procs :
          /\ (InCreate(p) /\ Stepped(p)) =>
                /\ (pc'[p] = "returned" \/ step'[p] # step[p]) =>
                      /\ LastCall(p).verb = "create"
                      /\ LastStatus(p) = NoException
                      /\ LET r == CreateOrder(p, cfg[p])[step[p]]
                         IN {x \in platform' : x.kind = r.kind /\ x.name = r.name}
                               = {[kind |-> r.kind, name |-> r.name, body |-> r.body]}
                /\ pc'[p] = "returned" =>
                      /\ step[p] = 3
                      /\ outcome'[p].exc = "none"
                      /\ outcome'[p].message = cluster_id(p)
                /\ pc'[p] = "raised" =>
                      /\ LastStatus(p) # NoException
                      /\ outcome'[p] = ApiException(LastStatus(p))
                      /\ step'[p] = step[p]
                /\ (/\ LastStatus(p) # NoException
                    /\ ~(pc[p] = "create1" /\ LastStatus(p) = Conflict)) =>
                      pc'[p] = "raised"
          /\ (InCreate(p) /\ pc[p] \in {"raised", "returned"}) =>
                (calls'[p] = calls[p] \/ calls'[p] = <<>>)]_vars

C26_Witness ==
    \E p, q \in Procs :
        /\ InCreate(p)
        /\ pc[p] = "returned"
        /\ \A i \in 1..3 : Applied(p, i)
        /\ outcome[p].message = cluster_id(p)
        /\ InCreate(q)
        /\ pc[q] = "raised"
        /\ step[q] = 2
        /\ outcome[q] = ApiException(NotFound)

(* ------------------------------------------------------------------ *)
(* C27 .. C30: callers racing on the same names                        *)
(* ------------------------------------------------------------------ *)

Reconciled(p, i) == InCreate(p) /\ (step[p] > i \/ pc[p] = "returned")

\* C28: when both callers' create-or-replace of the same resource have
\* returned, however their create and delete calls interleaved, exactly one
\* resource of that kind and name exists and its body is the manifest of one
\* of the two callers.
C28_RaceLeavesOneWinner ==
    \A i \in 1..3 :
        (\A p \in Procs : Reconciled(p, i)) =>
            \E p \in Procs : Applied(p, i)

\* both callers met the conflict, deleted and recreated the master deployment
C28_Witness ==
    /\ \A p \in Procs :
          /\ InCreate(p)
          /\ pc[p] = "create1"
          /\ step[p] = 2
          /\ Verbs(p) = <<"create", "delete", "create">>
          /\ Status(p, 1) = Conflict
          /\ Status(p, 3) = NoException
    /\ cfg["a"] # cfg["b"]
    /\ Applied("b", 1)
    /\ ~Applied("a", 1)

\* C29 as claimed: whenever delete_cluster returns success, none of the three
\* named resources exists at the moment it returns, in every interleaving
\* with other callers.
C29_NoOrphansAfterDelete ==
    [][\A p \in Procs :
          (/\ InDelete(p)
           /\ pc[p] = "attempt_delete"
           /\ pc'[p] = "returned"
           /\ outcome'[p].exc = "none") => NoneOfTheThree']_vars

\* the resources delete_cluster has already attempted are absent
Cleared(p) ==
    (InDelete(p) /\ pc[p] \in {"attempt_delete", "returned"}) =>
        \A i \in 1..3 :
            (i < step[p] \/ pc[p] = "returned") =>
                ~Exists(DeleteOrder[i].kind, DeleteOrder[i].name)

\* another caller has a create accepted in this step
OtherCreates(p) ==
    \E q \in Procs \ {p} :
        /\ Stepped(q)
        /\ LastCall(q).verb = "create"
        /\ LastStatus(q) = NoException

\* C29 as the code has it: every resource delete_cluster has attempted
\* without raising is absent from then on, up to and including the moment
\* delete_cluster returns, unless another caller creates a resource in the
\* meantime; so on a successful return none of the three exists provided no
\* other caller's create was accepted while the call ran.
C29_NoOrphansUnlessRecreated ==
    [][\A p \in Procs :
          (Cleared(p) /\ ~OtherCreates(p)) => Cleared(p)']_vars

C29_Witness ==
    \E p, q \in Procs :
        /\ InDelete(p)
        /\ pc[p] = "returned"
        /\ NCalls(p) = 3
        /\ AllStatusesIn(p, {NoException})
        /\ NoneOfTheThree
        /\ InCreate(q)
        /\ pc[q] = "raised"
        /\ step[q] = 1
        /\ Status(q, 1) = ServerError

\* p is in a delete_cluster that found none of the three resources so far,
\* and none is there
Rerun(p) ==
    /\ InDelete(p)
    /\ pc[p] = "attempt_delete"
    /\ NoneOfTheThree
    /\ \A i \in 1..Len(results[p]) : ~results[p][i].resource_exists

\* C30: a delete_cluster called directly after a delete_cluster that
\* returned success, nobody else acting, starts with none of the three
\* resources there; each of its attempts the platform answers is answered
\* not-found and leaves the platform unchanged, and after the third it
\* returns the "no resources found" message.
C30_DeleteAgainFindsNothing ==
    [][\A p \in Procs :
          /\ (/\ InDelete(p)
              /\ pc[p] = "returned"
              /\ outcome[p].exc = "none"
              /\ InDelete(p)'
              /\ pc'[p] = "attempt_delete") => Rerun(p)'
          /\ (Rerun(p) /\ Stepped(p)) =>
                /\ platform' = platform
                /\ LastStatus(p) \in {NotFound, ServerError}
                /\ LastStatus(p) = NotFound =>
                      \/ NCalls(p)' < 3 /\ Rerun(p)'
                      \/ /\ NCalls(p)' = 3
                         /\ pc'[p] = "returned"
                         /\ outcome'[p].exc = "none"
                         /\ outcome'[p].message = "No Spark cluster resources found"]_vars

\* a cluster was created before, and a delete_cluster has found nothing of it
C30_Witness ==
    /\ InDelete("a")
    /\ pc["a"] = "returned"
    /\ cfg["a"] = MaxCfg
    /\ NCalls("a") = 3
    /\ AllStatusesIn("a", {NotFound})
    /\ outcome["a"].message = "No Spark cluster resources found"
    /\ platform = {}

(* ------------------------------------------------------------------ *)
(* C31 .. C34: the manager's identity and its construction             *)
(* ------------------------------------------------------------------ *)

\* C31: the identity of a constructed manager never changes: no step of a
\* create_cluster, get_cluster_status or delete_cluster call, succeeding or
\* failing, changes its username, cluster id, master name, worker name or
\* namespace.
C31_IdentityIsImmutable ==
    [][\A p \in Procs :
          self[p].state = "constructed" =>
              /\ self'[p].state = "constructed"
              /\ self'[p].username = self[p].username
              /\ self'[p].cluster_id = self[p].cluster_id
              /\ self'[p].master_name = self[p].master_name
              /\ self'[p].worker_name = self[p].worker_name
              /\ self'[p].namespace = self[p].namespace]_vars

\* a delete_cluster call that failed after a create_cluster call of the other
\* caller, both having addressed the names of their managers
C31_Witness ==
    /\ InDelete("a")
    /\ pc["a"] = "raised"
    /\ calls["a"][1].name = self["a"].worker_name
    /\ InCreate("b")
    /\ pc["b"] = "returned"
    /\ calls["b"][1].name = self["b"].worker_name
    /\ self["a"] = Manager("a")
    /\ self["b"] = Manager("b")

HexDigits == {"0", "1", "2", "3", "4", "5", "6", "7", "8", "9",
              "a", "b", "c", "d", "e", "f"}

\* C32: for every username, a constructed manager's master name is
\* "spark-master-" + sanitize(username), its worker name is "spark-worker-" +
\* sanitize(username), and its cluster id is "spark-" + sanitize(username) +
\* "-" + eight lowercase hexadecimal characters.
C32_NamesUseTheSanitizedUsername ==
    \A p \in Procs :
        self[p].state = "constructed" =>
            LET s == sanitize_k8s_name(self[p].username)
            IN  /\ self[p].master_name =
                      str(<<"s", "p", "a", "r", "k", "-", "m", "a", "s", "t", "e", "r", "-">> \o s)
                /\ self[p].worker_name =
                      str(<<"s", "p", "a", "r", "k", "-", "w", "o", "r", "k", "e", "r", "-">> \o s)
                /\ \E hex \in {h \in Uuid8 : \A i \in 1..8 : h[i] \in HexDigits} :
                       self[p].cluster_id =
                           str(<<"s", "p", "a", "r", "k", "-">> \o s \o <<"-">> \o hex)

\* C33: the sanitizer is idempotent, and its output consists only of
\* lowercase alphanumerics, "-" and ".", neither starts nor ends with "-" or
\* ".", is no longer than the name limit, and is empty when every character
\* of the input is a disallowed one.
C33_SanitizerIsIdempotentAndValid ==
    sanitized.calls = 2 =>
        LET out == sanitized.output
        IN  /\ sanitized.again = out
            /\ \A i \in 1..Len(out) :
                   out[i] \in {"a", "b", "1", "-", "."}
            /\ out # <<>> => (out[1] \notin {"-", "."} /\ out[Len(out)] \notin {"-", "."})
            /\ Len(out) <= K8S_NAME_MAX
            /\ (\A i \in 1..Len(sanitized.input) : sanitized.input[i] \in {"_", "@"}) =>
                   out = <<>>

\* a setting that is unset, empty or whitespace-only
Blank(var) == environ[var] \in {NoValue, "", " "}

\* C34: constructing a manager while any of the settings the tests treat as
\* required (BERDL_TOLERATIONS among them) is unset or blank fails with a
\* ValueError that lists every such setting, and no platform client has been
\* created.
C34_MissingSettingsFailConstruction ==
    \A p \in Procs :
        (self[p].state # "new" /\ \E var \in sample_env_vars : Blank(var)) =>
            /\ self[p].state = "raised"
            /\ self[p].exception = "ValueError"
            /\ {self[p].missing[i] : i \in 1..Len(self[p].missing)} =
                   {var \in sample_env_vars : Blank(var)}
            /\ ~self[p].clients

(* ------------------------------------------------------------------ *)
(* C35 .. C39: freshness, the delete tally, the replace gap, bounds    *)
(* ------------------------------------------------------------------ *)

\* C35: status is computed anew by every query.  A get_cluster_status call
\* starts with no reads made and no status remembered, and the status a
\* query returns is the one computed from the two reads that query itself
\* made since it was called: what the platform answers now, never what an
\* earlier query was given.
C35_StatusIsComputedFresh ==
    /\ [](\A p \in Procs :
            StatusReturned(p) =>
                /\ NCalls(p) = 2
                /\ IsRead(calls[p][1], master_name)
                /\ IsRead(calls[p][2], worker_name)
                /\ cluster_status[p] =
                       SparkClusterStatus(get_deployment_status(calls[p][1].resp),
                                          get_deployment_status(calls[p][2].resp)))
    /\ [][\A p \in Procs :
            (op'[p] = "get_cluster_status" /\ pc[p] \notin {"read_master", "read_worker"}
               /\ <<pc[p], op[p], calls[p]>> # <<pc'[p], op'[p], calls'[p]>>) =>
                /\ pc'[p] = "read_master"
                /\ calls'[p] = <<>>
                /\ master_status'[p] = DeploymentStatus(FALSE)
                /\ worker_status'[p] = DeploymentStatus(FALSE)
                /\ cluster_status'[p] = NoClusterStatus]_vars

\* a query reports a master with a ready replica and no worker deployment,
\* on a platform from which the worker deployment has gone
C35_Witness ==
    /\ StatusReturned("a")
    /\ Named("Deployment", worker_name) = {}
    /\ ~cluster_status["a"].workers.exists
    /\ cluster_status["a"].master.ready_replicas = 1
    /\ cluster_status["a"].master_url = Some(master_url)

\* C36: every record _attempt_delete returns has deleted = resource_exists,
\* so once the three attempts have returned the two counts are equal,
\* delete_cluster never raises ClusterDeletionError, and whenever it raises it
\* raises the provider error of its last, failing delete.
C36_DeletedIffExisted ==
    \A p \in Procs :
        InDelete(p) =>
            /\ \A i \in 1..Len(results[p]) :
                   results[p][i].deleted = results[p][i].resource_exists
            /\ Len(results[p]) = 3 => NDeleted(p) = NFound(p)
            /\ outcome[p].exc # "ClusterDeletionError"
            /\ pc[p] = "raised" =>
                   /\ NCalls(p) = Len(results[p]) + 1
                   /\ Status(p, NCalls(p)) \notin {NoException, NotFound}
                   /\ outcome[p] = ApiException(Status(p, NCalls(p)))

\* one caller's three attempts found and deleted two of the resources, and
\* the other caller's delete_cluster failed at its second delete
C36_Witness ==
    \E p, q \in Procs :
        /\ InDelete(p)
        /\ pc[p] = "returned"
        /\ Len(results[p]) = 3
        /\ NFound(p) = 2
        /\ NDeleted(p) = 2
        /\ InDelete(q)
        /\ pc[q] = "raised"
        /\ Len(results[q]) = 1
        /\ outcome[q] = ApiException(ServerError)

\* C37: the replace is not atomic.  When the delete of a conflict-triggered
\* replace succeeds, the call goes on to its second create with no resource
\* of that kind and name on the platform; when the second create then fails,
\* the call raises its error and leaves the platform as it is: it restores
\* nothing and puts nothing in the deleted resource's place.
C37_NoAtomicityAcrossTheGap ==
    [][\A p \in Procs :
          LET r == CreateOrder(p, cfg[p])[step[p]]
              after == {x \in platform' : x.kind = r.kind /\ x.name = r.name}
          IN  /\ (/\ InCreate(p)
                  /\ pc[p] = "delete"
                  /\ Stepped(p)
                  /\ LastStatus(p) = NoException) =>
                     /\ pc'[p] = "create2"
                     /\ after = {}
              /\ (/\ InCreate(p)
                  /\ pc[p] = "create2"
                  /\ Stepped(p)
                  /\ LastStatus(p) # NoException) =>
                     /\ pc'[p] = "raised"
                     /\ outcome'[p] = ApiException(LastStatus(p))
                     /\ platform' = platform]_vars

\* a replace of the master deployment whose second create failed: the old
\* deployment is gone and there is none in its place
C37_Witness ==
    \E p \in Procs :
        /\ CorRaised(p)
        /\ Verbs(p) = <<"create", "delete", "create">>
        /\ calls[p][1].kind = "Deployment"
        /\ calls[p][1].name = master_name
        /\ Status(p, 1) = Conflict
        /\ Status(p, 2) = NoException
        /\ Status(p, 3) = ServerError
        /\ Named("Deployment", master_name) = {}

\* C38: get_cluster_status is read-only: no step of a status query changes
\* the resources on the platform or their bodies, and the only platform
\* calls a query makes are reads of the two deployments, whatever they
\* answer.
C38_StatusQueryIsReadOnly ==
    [][\A p \in Procs :
          (op'[p] = "get_cluster_status"
             /\ <<pc[p], op[p], calls[p]>> # <<pc'[p], op'[p], calls'[p]>>) =>
              /\ platform' = platform
              /\ \A i \in 1..Len(calls'[p]) :
                     /\ calls'[p][i].verb = "read"
                     /\ calls'[p][i].kind = "Deployment"
                     /\ calls'[p][i].name \in {"spark-master-user", "spark-worker-user"}]_vars

\* a returned query on a platform holding the whole cluster: the master read
\* failed and the worker deployment was found without ready replicas
C38_Witness ==
    /\ StatusReturned("a")
    /\ Cardinality(platform) = 3
    /\ calls["a"][1].resp.status = ServerError
    /\ cluster_status["a"].workers.exists
    /\ cluster_status["a"].workers.ready_replicas = 0

\* an upper bound on the platform calls p's operation can still make
Rank(p) ==
    CASE op[p] = "create_cluster" /\ pc[p] = "create1" -> 3 * (4 - step[p])
      [] op[p] = "create_cluster" /\ pc[p] = "delete" -> 3 * (3 - step[p]) + 2
      [] op[p] = "create_cluster" /\ pc[p] = "create2" -> 3 * (3 - step[p]) + 1
      [] op[p] = "delete_cluster" /\ pc[p] = "attempt_delete" -> 4 - step[p]
      [] op[p] = "get_cluster_status" /\ pc[p] = "read_master" -> 2
      [] op[p] = "get_cluster_status" /\ pc[p] = "read_worker" -> 1
      [] OTHER -> 0

\* C39: every operation ends after a bounded number of platform calls.  The
\* calls an operation can still make are at most 9 when create_cluster
\* starts, 3 when delete_cluster starts and 2 when get_cluster_status starts,
\* never negative, and every platform call lowers that number; one
\* create-or-replace makes at most 3 calls, delete_cluster at most 3, and a
\* status query that has returned has made exactly 2.
C39_BoundedPlatformCalls ==
    /\ [](\A p \in Procs :
            /\ Rank(p) >= 0
            /\ InCreate(p) => (Rank(p) <= 9 /\ NCalls(p) <= 3)
            /\ InDelete(p) => (Rank(p) <= 3 /\ NCalls(p) <= 3 /\ NCalls(p) + Rank(p) <= 3)
            /\ InStatus(p) => (Rank(p) <= 2 /\ NCalls(p) + Rank(p) = 2)
            /\ (pc[p] \in {"returned", "raised", "idle"}) = (Rank(p) = 0))
    /\ [][\A p \in Procs : Stepped(p) => Rank(p)' < Rank(p)]_vars

\* a create_cluster call that returned after a replace of its third resource,
\* next to a delete_cluster call of the other caller that made three calls
C39_Witness ==
    /\ InCreate("a")
    /\ pc["a"] = "returned"
    /\ Verbs("a") = <<"create", "delete", "create">>
    /\ InDelete("b")
    /\ pc["b"] = "returned"
    /\ NCalls("b") = 3

====
